---- MODULE Spec2Model ----
(***************************************************************************)
(* A model of the cw-agent certificate scanning pipeline and its cloud    *)
(* synchronisation:                                                        *)
(*   internal/scanner/scanner.go   ScanAll, Scan, parseCertificate,        *)
(*                                 parseChain, isWeakSignature             *)
(*   internal/sync/client.go       Sync, buildSyncRequest, Heartbeat       *)
(*   internal/state/state.go       the identity setters, Load, Save        *)
(*   internal/agent/agent.go       Run, scan, syncWithCloud, sendHeartbeat *)
(* Times are whole hours relative to an arbitrary origin; strings that the *)
(* code inspects character by character are sequences of characters.       *)
(***************************************************************************)
EXTENDS Integers, Sequences, FiniteSets, TLC

VARIABLES
    \* ---- Scanner.ScanAll ----
    certs,      \* the endpoint list handed to ScanAll ([]config.CertificateConfig)
    concurrency,\* Scanner.concurrency, the capacity of the semaphore channel
    ctxDone,    \* TRUE once ctx.Done() is closed
    results,    \* results []ScanResult, one cell per endpoint
    sem,        \* number of tokens in the semaphore channel
    wg,         \* the WaitGroup counter
    spawned,    \* how many goroutines the range loop has started
    wpc,        \* each worker goroutine's position
    wresp,      \* per worker: the dial's answer and the ctx state Scan ran with
    mainpc,     \* ScanAll's own position: "loop", "wait", "returned"
    returned,   \* the slice ScanAll returned
    \* ---- Scanner.parseCertificate / Scanner.parseChain on their own ----
    now,        \* time.Now(), in hours
    chainIn,    \* the peer certificates handed to the parser
    hostIn,     \* the hostname the connection targeted
    ppc,        \* "ready" before the call, "done" after
    certOut,    \* parseCertificate's CertificateInfo (a 0/1-element sequence)
    chainOut,   \* parseChain's ChainInfo (a 0/1-element sequence)
    \* ---- state.Manager, sync.Client, agent.Agent ----
    state,      \* Manager.state: the identity held in memory
    disk,       \* the state file: <<>> when absent, else <<the saved State>>
    lastScan,   \* Agent.lastScan: <<>> when nil, else <<the batch ScanAll returned>>
    apc,        \* the position of the agent's goroutine
    task,       \* what Run is executing: start-up, or the tick being handled
    syncReq,    \* the SyncRequest of the Sync call under way (0/1-element)
    syncRet,    \* what Sync got back and returned (0/1-element)
    hbReq,      \* the HeartbeatRequest of the Heartbeat call under way (0/1-element)
    did,        \* what the handler under way has done so far, in order
    lastErr,    \* the error the last call returned to its caller; "" is nil
    clearRet,   \* what ClearAgentID returned in the recovery under way (0/1-element)
    recorded,   \* the outcome syncWithCloud recorded for its Sync (0/1-element)
    \* ---- state.Manager.mu and the goroutines that call the manager ----
    mu,         \* the sync.RWMutex: readers holding it, and whether a writer does
    flows,      \* per goroutine: its position and the Manager method it is in
    \* ---- cert-manager agent: CertificateReconciler, EventWatcher, Agent ----
    certificates, \* CertificateReconciler.certificates: key -> status
    ops,          \* the storeCertificate / removeCertificate calls made, in order
    events,       \* EventWatcher.events: the buffer
    reconciled,   \* how many cert-manager events Reconcile has processed
    immediateSyncPending, \* Agent.immediateSyncPending
    isync,        \* the scheduleImmediateEventSync goroutines, by spawning event
    esync,        \* the doEventSync goroutines, by spawning request failure
    syncLoopPc,   \* the cert-manager agent's syncLoop position
    delivered,    \* the events the API has accepted
    drained       \* the events some doEventSync took out of the buffer

scanVars == <<certs, concurrency, ctxDone, results, sem, wg, spawned, wpc, wresp,
              mainpc, returned>>
parseVars == <<now, chainIn, hostIn, ppc, certOut, chainOut>>
lockVars == <<mu, flows>>
cmVars == <<certificates, ops, events, reconciled, immediateSyncPending, isync,
            esync, syncLoopPc, delivered, drained>>
agentVars == <<state, disk, lastScan, apc, task, syncReq, syncRet, hbReq, did,
               lastErr, clearRet, recorded, mu, flows, cmVars>>
vars == <<certs, concurrency, ctxDone, results, sem, wg, spawned, wpc, wresp,
          mainpc, returned, now, chainIn, hostIn, ppc, certOut, chainOut,
          state, disk, lastScan, apc, task, syncReq, syncRet, hbReq, did,
          lastErr, clearRet, recorded, mu, flows,
          certificates, ops, events, reconciled, immediateSyncPending, isync,
          esync, syncLoopPc, delivered, drained>>

(***************************************************************************)
(* Bounds of the model.                                                    *)
(***************************************************************************)
MaxEndpoints == 2
MaxConcurrency == 2
MaxChainLen == 2
MaxHours == 49
MaxScans == 2
MaxAgentEndpoints == 1

(***************************************************************************)
(* Program constants.                                                      *)
(***************************************************************************)
HoursPerDay == 24
MinConcurrency == 1

(***************************************************************************)
(* Strings as the code inspects them: strings.ToUpper, strings.Contains.   *)
(***************************************************************************)
Lower == <<"a","b","c","d","e","f","g","h","i","j","k","l","m",
           "n","o","p","q","r","s","t","u","v","w","x","y","z">>
Upper == <<"A","B","C","D","E","F","G","H","I","J","K","L","M",
           "N","O","P","Q","R","S","T","U","V","W","X","Y","Z">>

UpperChar(c) ==
    IF \E k \in 1..Len(Lower) : Lower[k] = c
    THEN Upper[CHOOSE k \in 1..Len(Lower) : Lower[k] = c]
    ELSE c

ToUpper(s) == [k \in 1..Len(s) |-> UpperChar(s[k])]

Contains(s, sub) ==
    \E k \in 0..(Len(s) - Len(sub)) :
        \A j \in 1..Len(sub) : s[k + j] = sub[j]

WeakNames == {<<"M","D","2">>, <<"M","D","5">>, <<"S","H","A","1">>}

isWeakSignature(algo) == \E w \in WeakNames : Contains(ToUpper(algo), w)

(***************************************************************************)
(* Certificates as the parser reads them.                                  *)
(***************************************************************************)
SHA256RSA == <<"S","H","A","2","5","6","-","R","S","A">>
ECDSASHA1 == <<"E","C","D","S","A","-","S","H","A","1">>
MD5RSA    == <<"M","D","5","-","R","S","A">>
Algos == {SHA256RSA, ECDSASHA1, MD5RSA}

DNs == {"CN=a", "CN=b"}
Hostnames == {"a.example", "b.example"}

\* x509.Certificate.VerifyHostname: the leaf's names against the target.
VerifyHostname(cert, hostname) == hostname \in cert.DNSNames

\* Validity bounds around the clock reading 0: before it, at it, after it.
Times == {-1, 0, 1}

\* The leaf is the certificate whose names are matched against the hostname.
Leaves == [NotBefore : Times, NotAfter : Times, Subject : {"CN=a"}, Issuer : DNs,
           SignatureAlgorithm : Algos, DNSNames : {{h} : h \in Hostnames}]

\* Intermediate and root certificates.
Certs == [NotBefore : {-1, 1}, NotAfter : {-1, 1}, Subject : {"CN=b"}, Issuer : DNs,
          SignatureAlgorithm : {SHA256RSA, ECDSASHA1}, DNSNames : {{}}]

\* int(f) of a float quotient a/b, b > 0: Go truncates toward zero.
TruncDiv(a, b) == IF a >= 0 THEN a \div b ELSE -((-a) \div b)

\* time.Until(cert.NotAfter).Hours() with the clock reading t.
HoursUntil(notAfter, t) == notAfter - t

parseCertificate(cert, t) ==
    [Subject         |-> cert.Subject,
     Issuer          |-> cert.Issuer,
     NotBefore       |-> cert.NotBefore,
     NotAfter        |-> cert.NotAfter,
     SANList         |-> cert.DNSNames,
     DaysUntilExpiry |-> TruncDiv(HoursUntil(cert.NotAfter, t), HoursPerDay)]

ChainIssue(type, message, index) ==
    [Type |-> type, Message |-> message, CertificateIndex |-> index]

EmptyChain == [Valid |-> TRUE, Issues |-> <<>>, Certificates |-> <<>>]

\* One "if" of parseChain: append an issue, and clear Valid when it is fatal.
appendIssue(chain, cond, fatal, issue) ==
    IF cond
    THEN [chain EXCEPT !.Issues = Append(@, issue),
                       !.Valid = IF fatal THEN FALSE ELSE @]
    ELSE chain

\* Variant: the expiry test applied to the leaf only.
checkCertificateLeafOnly(chain, cert, i, t) ==
    LET c0 == [chain EXCEPT !.Certificates = Append(@,
                   [Subject |-> cert.Subject, Issuer |-> cert.Issuer,
                    NotBefore |-> cert.NotBefore, NotAfter |-> cert.NotAfter])]
        c1 == appendIssue(c0, i = 0 /\ t > cert.NotAfter, TRUE,
                  ChainIssue("expired", <<"Certificate expired on", cert.NotAfter>>, i))
        c2 == appendIssue(c1, t < cert.NotBefore, TRUE,
                  ChainIssue("not_yet_valid",
                             <<"Certificate not valid until", cert.NotBefore>>, i))
    IN  appendIssue(c2, i = 0 /\ cert.Subject = cert.Issuer, FALSE,
                  ChainIssue("self_signed", <<"Leaf certificate is self-signed">>, i))

\* Variant: a self-signed leaf clears Valid.
checkCertificateSelfSignedFatal(chain, cert, i, t) ==
    LET c0 == [chain EXCEPT !.Certificates = Append(@,
                   [Subject |-> cert.Subject, Issuer |-> cert.Issuer,
                    NotBefore |-> cert.NotBefore, NotAfter |-> cert.NotAfter])]
        c1 == appendIssue(c0, t > cert.NotAfter, TRUE,
                  ChainIssue("expired", <<"Certificate expired on", cert.NotAfter>>, i))
        c2 == appendIssue(c1, t < cert.NotBefore, TRUE,
                  ChainIssue("not_yet_valid",
                             <<"Certificate not valid until", cert.NotBefore>>, i))
    IN  appendIssue(c2, i = 0 /\ cert.Subject = cert.Issuer, TRUE,
                  ChainIssue("self_signed", <<"Leaf certificate is self-signed">>, i))

\* Variant: the self-signed test applied at index 1, not at the leaf.
checkCertificateSelfSignedAtOne(chain, cert, i, t) ==
    LET c0 == [chain EXCEPT !.Certificates = Append(@,
                   [Subject |-> cert.Subject, Issuer |-> cert.Issuer,
                    NotBefore |-> cert.NotBefore, NotAfter |-> cert.NotAfter])]
        c1 == appendIssue(c0, t > cert.NotAfter, TRUE,
                  ChainIssue("expired", <<"Certificate expired on", cert.NotAfter>>, i))
        c2 == appendIssue(c1, t < cert.NotBefore, TRUE,
                  ChainIssue("not_yet_valid",
                             <<"Certificate not valid until", cert.NotBefore>>, i))
    IN  appendIssue(c2, i = 1 /\ cert.Subject = cert.Issuer, FALSE,
                  ChainIssue("self_signed", <<"Leaf certificate is self-signed">>, i))

\* The body of the first loop of parseChain, for the certificate at index i.
checkCertificate(chain, cert, i, t) ==
    LET c0 == [chain EXCEPT !.Certificates = Append(@,
                   [Subject |-> cert.Subject, Issuer |-> cert.Issuer,
                    NotBefore |-> cert.NotBefore, NotAfter |-> cert.NotAfter])]
        c1 == appendIssue(c0, t > cert.NotAfter, TRUE,
                  ChainIssue("expired", <<"Certificate expired on", cert.NotAfter>>, i))
        c2 == appendIssue(c1, t < cert.NotBefore, TRUE,
                  ChainIssue("not_yet_valid",
                             <<"Certificate not valid until", cert.NotBefore>>, i))
    IN  appendIssue(c2, i = 0 /\ cert.Subject = cert.Issuer, FALSE,
                  ChainIssue("self_signed", <<"Leaf certificate is self-signed">>, i))

\* The first loop: "for i, cert := range certs", i from 0.
RECURSIVE checkAll(_, _, _, _)
checkAll(chain, cs, k, t) ==
    IF k > Len(cs) THEN chain
    ELSE checkAll(checkCertificate(chain, cs[k], k - 1, t), cs, k + 1, t)

\* Variant: the hostname issue put at the head of the list.
checkHostnameFirst(chain, cs, hostname) ==
    IF Len(cs) > 0 /\ ~VerifyHostname(cs[1], hostname)
    THEN [chain EXCEPT !.Issues =
             <<ChainIssue("hostname_mismatch",
                          <<"Certificate does not match hostname">>, 0)>> \o @]
    ELSE chain

\* "Verify hostname matches": the leaf against the target hostname.
checkHostname(chain, cs, hostname) ==
    appendIssue(chain, Len(cs) > 0 /\ ~VerifyHostname(cs[1], hostname), FALSE,
                ChainIssue("hostname_mismatch",
                           <<"Certificate does not match hostname">>, 0))

\* The body of the last loop: weak signature algorithms.
checkWeak(chain, cert, i) ==
    appendIssue(chain, isWeakSignature(cert.SignatureAlgorithm), FALSE,
                ChainIssue("weak_crypto",
                           <<"Weak signature algorithm:">> \o cert.SignatureAlgorithm, i))

RECURSIVE weakAll(_, _, _)
weakAll(chain, cs, k) ==
    IF k > Len(cs) THEN chain
    ELSE weakAll(checkWeak(chain, cs[k], k - 1), cs, k + 1)

parseChain(cs, hostname, t) ==
    weakAll(checkHostname(checkAll(EmptyChain, cs, 1, t), cs, hostname), cs, 1)

(***************************************************************************)
(* Scanner.Scan                                                            *)
(***************************************************************************)
\* A time.Time is a 0/1-element sequence: the zero value, or a clock reading.
ZeroTime == <<>>
NowUTC == <<now>>

\* make([]ScanResult, n) fills the slice with zero values.
ZeroResult == [Hostname |-> "", Port |-> 0, Success |-> FALSE, Error |-> "",
               ScannedAt |-> ZeroTime, Certificate |-> <<>>, Chain |-> <<>>]

\* What tls.DialWithDialer and ConnectionState give: an error, or the peer chain.
ValidLeaf == [NotBefore |-> -1, NotAfter |-> 1, Subject |-> "CN=a", Issuer |-> "CN=b",
              SignatureAlgorithm |-> SHA256RSA, DNSNames |-> {"a.example"}]
NetResponses == {[err |-> TRUE, PeerCertificates |-> <<>>],
                 [err |-> FALSE, PeerCertificates |-> <<>>],
                 [err |-> FALSE, PeerCertificates |-> <<ValidLeaf>>]}

\* Variant: Scan gives up when ctx is done.
ScanHonoursCtx(done, hostname, port, resp, t) ==
    LET result == [ZeroResult EXCEPT !.Hostname = hostname, !.Port = port,
                                     !.ScannedAt = NowUTC]
    IN  IF done \/ resp.err
        THEN [result EXCEPT !.Success = FALSE,
                            !.Error = IF done THEN "context canceled"
                                      ELSE "connection failed"]
        ELSE IF Len(resp.PeerCertificates) = 0
        THEN [result EXCEPT !.Success = FALSE, !.Error = "no certificates received"]
        ELSE [result EXCEPT !.Success = TRUE,
                 !.Certificate = <<parseCertificate(resp.PeerCertificates[1], t)>>,
                 !.Chain = <<parseChain(resp.PeerCertificates, hostname, t)>>]

\* Variant: Success set before the peer certificates are counted.
ScanSuccessFirst(done, hostname, port, resp, t) ==
    LET result == [ZeroResult EXCEPT !.Hostname = hostname, !.Port = port,
                                     !.ScannedAt = NowUTC]
    IN  IF resp.err
        THEN [result EXCEPT !.Success = FALSE, !.Error = "connection failed"]
        ELSE IF Len(resp.PeerCertificates) = 0
        THEN [result EXCEPT !.Success = TRUE, !.Error = "no certificates received"]
        ELSE [result EXCEPT !.Success = TRUE,
                 !.Certificate = <<parseCertificate(resp.PeerCertificates[1], t)>>,
                 !.Chain = <<parseChain(resp.PeerCertificates, hostname, t)>>]

\* Scan(ctx, hostname, port): ctx is accepted and never consulted.
Scan(done, hostname, port, resp, t) ==
    LET result == [ZeroResult EXCEPT !.Hostname = hostname, !.Port = port,
                                     !.ScannedAt = NowUTC]
    IN  IF resp.err
        THEN [result EXCEPT !.Success = FALSE, !.Error = "connection failed"]
        ELSE IF Len(resp.PeerCertificates) = 0
        THEN [result EXCEPT !.Success = FALSE, !.Error = "no certificates received"]
        ELSE [result EXCEPT !.Success = TRUE,
                 !.Certificate = <<parseCertificate(resp.PeerCertificates[1], t)>>,
                 !.Chain = <<parseChain(resp.PeerCertificates, hostname, t)>>]

(***************************************************************************)
(* Scanner.ScanAll                                                         *)
(***************************************************************************)
Endpoints == {[Hostname |-> "a.example", Port |-> 443,
               Tags |-> <<"prod">>, Notes |-> "front door"],
              [Hostname |-> "b.example", Port |-> 8443,
               Tags |-> <<>>, Notes |-> ""]}

RECURSIVE SeqsUpTo(_, _)
SeqsUpTo(S, n) ==
    IF n = 0 THEN {<<>>}
    ELSE LET shorter == SeqsUpTo(S, n - 1)
         IN  shorter \cup {Append(q, x) : q \in shorter, x \in S}

N == Len(certs)
Workers == 1..N

\* The result the canceled branch of the select writes.
CanceledResult(c) ==
    [ZeroResult EXCEPT !.Hostname = c.Hostname, !.Port = c.Port,
                       !.Success = FALSE, !.Error = "context canceled",
                       !.ScannedAt = NowUTC]

\* Variant: the closure reads the loop variable, not its argument.
WorkerArgLoopVar(i) == certs[Len(certs)]

\* go func(idx int, c config.CertificateConfig) {...}(i, cert)
WorkerArg(i) == certs[i]

\* Variant: a channel that never fills.
SemHasRoomUnbounded == TRUE

\* "sem <- struct{}{}" can proceed: the buffered channel is not full.
SemHasRoom == sem < concurrency

\* Variant: a Wait that does not wait.
WaitReadyNoBarrier == TRUE

\* wg.Wait() can return: the counter is zero.
WaitReady == wg = 0

\* state.New: an empty State.
EmptyState == [AgentID |-> "", AgentName |-> "", PreviousAgentID |-> "",
               LastSyncAt |-> ZeroTime]

\* The zero sync.RWMutex, and no goroutine calling the manager.
IdleLock ==
    /\ mu = [readers |-> 0, writer |-> FALSE]
    /\ flows = <<>>

\* The cert-manager agent before its controllers have seen anything.
IdleCertManager ==
    /\ certificates = <<>> /\ ops = <<>>
    /\ events = <<>> /\ reconciled = 0
    /\ immediateSyncPending = FALSE
    /\ isync = <<>> /\ esync = <<>>
    /\ syncLoopPc = "idle"
    /\ delivered = {} /\ drained = {}

IdleAgent ==
    /\ state = EmptyState /\ disk = <<>> /\ lastScan = <<>>
    /\ apc = "idle" /\ task = "idle"
    /\ syncReq = <<>> /\ syncRet = <<>> /\ hbReq = <<>> /\ did = <<>>
    /\ lastErr = "" /\ clearRet = <<>> /\ recorded = <<>>
    /\ IdleLock
    /\ IdleCertManager

IdleParse ==
    /\ now = 0 /\ chainIn = <<>> /\ hostIn = "" /\ ppc = "idle"
    /\ certOut = <<>> /\ chainOut = <<>>

InitScanAll ==
    /\ certs \in SeqsUpTo(Endpoints, MaxEndpoints)
    /\ concurrency \in MinConcurrency..MaxConcurrency
    /\ ctxDone = FALSE
    /\ results = [i \in 1..Len(certs) |-> ZeroResult]
    /\ sem = 0
    /\ wg = 0
    /\ spawned = 0
    /\ wpc = [i \in 1..Len(certs) |-> "unborn"]
    /\ wresp = [i \in 1..Len(certs) |-> <<>>]
    /\ mainpc = "loop"
    /\ returned = <<>>
    /\ IdleParse
    /\ IdleAgent

\* The owner of ctx cancels it.
Cancel ==
    /\ ~ctxDone
    /\ ctxDone' = TRUE
    /\ UNCHANGED <<certs, concurrency, results, sem, wg, spawned, wpc, wresp,
                   mainpc, returned>>
    /\ UNCHANGED parseVars
    /\ UNCHANGED agentVars

\* One iteration of the range loop: wg.Add(1); go func(...)
Spawn ==
    /\ mainpc = "loop"
    /\ spawned < N
    /\ wg' = wg + 1
    /\ spawned' = spawned + 1
    /\ wpc' = [wpc EXCEPT ![spawned + 1] = "select"]
    /\ UNCHANGED <<certs, concurrency, ctxDone, results, sem, wresp, mainpc, returned>>
    /\ UNCHANGED parseVars
    /\ UNCHANGED agentVars

\* The range loop ends; ScanAll reaches wg.Wait().
LoopEnd ==
    /\ mainpc = "loop"
    /\ spawned = N
    /\ mainpc' = "wait"
    /\ UNCHANGED <<certs, concurrency, ctxDone, results, sem, wg, spawned, wpc, wresp,
                   returned>>
    /\ UNCHANGED parseVars
    /\ UNCHANGED agentVars

\* select, case sem <- struct{}{}: the worker takes a slot and calls Scan.
Acquire(i) ==
    /\ wpc[i] = "select"
    /\ SemHasRoom
    /\ sem' = sem + 1
    /\ wpc' = [wpc EXCEPT ![i] = "scan"]
    /\ UNCHANGED <<certs, concurrency, ctxDone, results, wg, spawned, wresp, mainpc,
                   returned>>
    /\ UNCHANGED parseVars
    /\ UNCHANGED agentVars

\* select, case <-ctx.Done(): the worker writes the canceled result and returns.
FastFail(i) ==
    /\ wpc[i] = "select"
    /\ ctxDone
    /\ results' = [results EXCEPT ![i] = CanceledResult(WorkerArg(i))]
    /\ wpc' = [wpc EXCEPT ![i] = "wgdone"]
    /\ UNCHANGED <<certs, concurrency, ctxDone, sem, wg, spawned, wresp, mainpc,
                   returned>>
    /\ UNCHANGED parseVars
    /\ UNCHANGED agentVars

\* results[idx] = s.Scan(ctx, c.Hostname, c.Port): the dial is answered.
ScanReturn(i) ==
    /\ wpc[i] = "scan"
    /\ \E resp \in NetResponses :
          /\ wresp' = [wresp EXCEPT ![i] = <<[resp |-> resp, done |-> ctxDone]>>]
          /\ results' = [results EXCEPT ![i] =
                 Scan(ctxDone, WorkerArg(i).Hostname, WorkerArg(i).Port, resp, now)]
    /\ wpc' = [wpc EXCEPT ![i] = "release"]
    /\ UNCHANGED <<certs, concurrency, ctxDone, sem, wg, spawned, mainpc, returned>>
    /\ UNCHANGED parseVars
    /\ UNCHANGED agentVars

\* The worker returns without taking its token back out of sem.
ReleaseKeepsSlot(i) ==
    /\ wpc[i] = "release"
    /\ wpc' = [wpc EXCEPT ![i] = "wgdone"]
    /\ UNCHANGED <<certs, concurrency, ctxDone, results, sem, wg, spawned, wresp,
                   mainpc, returned>>
    /\ UNCHANGED parseVars
    /\ UNCHANGED agentVars

\* defer func() { <-sem }()
Release(i) ==
    /\ wpc[i] = "release"
    /\ sem' = sem - 1
    /\ wpc' = [wpc EXCEPT ![i] = "wgdone"]
    /\ UNCHANGED <<certs, concurrency, ctxDone, results, wg, spawned, wresp, mainpc,
                   returned>>
    /\ UNCHANGED parseVars
    /\ UNCHANGED agentVars

\* defer wg.Done()
WgDone(i) ==
    /\ wpc[i] = "wgdone"
    /\ wg' = wg - 1
    /\ wpc' = [wpc EXCEPT ![i] = "exit"]
    /\ UNCHANGED <<certs, concurrency, ctxDone, results, sem, spawned, wresp, mainpc,
                   returned>>
    /\ UNCHANGED parseVars
    /\ UNCHANGED agentVars

\* wg.Wait(); return results
Wait ==
    /\ mainpc = "wait"
    /\ WaitReady
    /\ mainpc' = "returned"
    /\ returned' = results
    /\ UNCHANGED <<certs, concurrency, ctxDone, results, sem, wg, spawned, wpc, wresp>>
    /\ UNCHANGED parseVars
    /\ UNCHANGED agentVars

NextScanAll ==
    \/ Cancel
    \/ Spawn
    \/ LoopEnd
    \/ \E i \in Workers : Acquire(i)
    \/ \E i \in Workers : FastFail(i)
    \/ \E i \in Workers : ScanReturn(i)
    \/ \E i \in Workers : Release(i)
    \/ \E i \in Workers : WgDone(i)
    \/ Wait

SpecScanAll == InitScanAll /\ [][NextScanAll]_vars

\* What one worker goroutine can do next.
WorkerStep(i) ==
    \/ Acquire(i)
    \/ FastFail(i)
    \/ ScanReturn(i)
    \/ Release(i)
    \/ WgDone(i)

\* What ScanAll's own goroutine can do next.
MainStep ==
    \/ Spawn
    \/ LoopEnd
    \/ Wait

\* Every goroutine that can run does run, and every Scan returns; whether
\* and when the context is canceled is up to the caller.
\* ScanAll entered with N copies of one endpoint, for every N and every K.
InitFairScanAll ==
    /\ InitScanAll
    /\ \A i \in 1..Len(certs) : certs[i] = certs[1]
    /\ \A i \in 1..Len(certs) : \A e \in Endpoints : certs[i].Port <= e.Port

FairSpecScanAll ==
    /\ InitFairScanAll
    /\ [][NextScanAll]_vars
    /\ WF_vars(MainStep)
    /\ \A i \in 1..MaxEndpoints : WF_vars(i \in Workers /\ WorkerStep(i))

(***************************************************************************)
(* The certificate parser on its own: the success path of Scan, applied to *)
(* every chain of the bounded input space.                                 *)
(***************************************************************************)
\* No ScanAll call is modelled goroutine by goroutine.
IdleWorkers ==
    /\ concurrency = MinConcurrency
    /\ results = <<>> /\ sem = 0 /\ wg = 0 /\ spawned = 0
    /\ wpc = <<>> /\ wresp = <<>> /\ mainpc = "idle" /\ returned = <<>>

IdleScanAll ==
    /\ certs = <<>> /\ ctxDone = FALSE
    /\ IdleWorkers

RECURSIVE ChainsOfLen(_)
ChainsOfLen(n) ==
    IF n = 1 THEN {<<leaf>> : leaf \in Leaves}
    ELSE {Append(q, c) : q \in ChainsOfLen(n - 1), c \in Certs}

Chains == UNION {ChainsOfLen(n) : n \in 1..MaxChainLen}

\* Single leaves whose expiry ranges over every hour of the window.
HourLeaves == {<<[ValidLeaf EXCEPT !.NotAfter = h]>> : h \in (-MaxHours)..MaxHours}

InitParse ==
    /\ IdleScanAll
    /\ IdleAgent
    /\ now = 0
    /\ chainIn \in Chains \cup HourLeaves
    /\ hostIn = "a.example"
    /\ ppc = "ready"
    /\ certOut = <<>>
    /\ chainOut = <<>>

\* Scan, after the handshake: parseCertificate(leaf), then parseChain(all).
Parse ==
    /\ ppc = "ready"
    /\ certOut' = <<parseCertificate(chainIn[1], now)>>
    /\ chainOut' = <<parseChain(chainIn, hostIn, now)>>
    /\ ppc' = "done"
    /\ UNCHANGED <<now, chainIn, hostIn>>
    /\ UNCHANGED scanVars
    /\ UNCHANGED agentVars

NextParse == Parse

SpecParse == InitParse /\ [][NextParse]_vars

(***************************************************************************)
(* sync.Client.buildSyncRequest                                            *)
(***************************************************************************)
\* c.agentName, from cfg.Agent.Name.
ConfiguredName == "agent-1"

\* Variant: results filed under the hostname alone.
ResultKeyHostOnly(hostname, port) == <<hostname>>

\* fmt.Sprintf("%s:%d", hostname, port).  The port prints as digits, so the
\* text after the last colon is the port and what precedes it the hostname:
\* two keys are equal exactly when hostname and port both are.
ResultKey(hostname, port) == <<hostname, port>>

\* resultMap[key] after the first loop: the last result filed under the key
\* (a later entry overwrites an earlier one), as a 0/1-element sequence.
lookupResult(rs, key) ==
    LET hits == {j \in 1..Len(rs) : ResultKey(rs[j].Hostname, rs[j].Port) = key}
    IN  IF hits = {} THEN <<>>
        ELSE <<rs[CHOOSE j \in hits : \A k \in hits : k <= j]>>

\* CertificateSyncData{Hostname, Port, Tags, Notes}: the rest zero.
StaticData(cert) ==
    [Hostname |-> cert.Hostname, Port |-> cert.Port, Tags |-> cert.Tags,
     Notes |-> cert.Notes, LastCheckAt |-> <<>>, Subject |-> "", Issuer |-> "",
     NotBefore |-> <<>>, NotAfter |-> <<>>, SANList |-> {},
     ChainValid |-> <<>>, ChainIssues |-> <<>>, LastError |-> ""]

\* The body of the second loop: one entry for one configured endpoint.
certSyncData(cert, rs) ==
    LET found == lookupResult(rs, ResultKey(cert.Hostname, cert.Port))
        data == StaticData(cert)
    IN  IF found = <<>> THEN data
        ELSE
          LET result == found[1]
              d1 == [data EXCEPT !.LastCheckAt = <<result.ScannedAt>>]
          IN  IF result.Success /\ result.Certificate # <<>>
              THEN LET info == result.Certificate[1]
                       d2 == [d1 EXCEPT !.Subject = info.Subject,
                                        !.Issuer = info.Issuer,
                                        !.NotBefore = <<info.NotBefore>>,
                                        !.NotAfter = <<info.NotAfter>>,
                                        !.SANList = info.SANList]
                   IN  IF result.Chain # <<>>
                       THEN [d2 EXCEPT !.ChainValid = <<result.Chain[1].Valid>>,
                                       !.ChainIssues = result.Chain[1].Issues]
                       ELSE d2
              ELSE IF result.Error # ""
              THEN [d1 EXCEPT !.LastError = result.Error]
              ELSE d1

\* Variant: a request that names the current identity only.
buildSyncRequestNoPrevious(cs, rs) ==
    [AgentID         |-> state.AgentID,
     PreviousAgentID |-> "",
     AgentName       |-> ConfiguredName,
     Certificates    |-> [i \in 1..Len(cs) |-> certSyncData(cs[i], rs)]]

\* The SyncRequest literal; version, host and heartbeat interval are fixed by
\* the build and the configuration and are left out.
buildSyncRequest(cs, rs) ==
    [AgentID         |-> state.AgentID,
     PreviousAgentID |-> state.PreviousAgentID,
     AgentName       |-> ConfiguredName,
     Certificates    |-> [i \in 1..Len(cs) |-> certSyncData(cs[i], rs)]]

(***************************************************************************)
(* buildSyncRequest on its own: every endpoint list against every result   *)
(* list of the bounded input space, matching or not.                       *)
(***************************************************************************)
BuildEndpoints ==
    Endpoints \cup {[Hostname |-> "a.example", Port |-> 8443,
                     Tags |-> <<"alt">>, Notes |-> ""]}

\* What Scan and the canceled path can have written for these endpoints.
BuildResults ==
    {Scan(FALSE, c.Hostname, c.Port, resp, 0) : c \in BuildEndpoints,
                                               resp \in NetResponses}
    \cup {CanceledResult(c) : c \in BuildEndpoints}

InitBuild ==
    /\ IdleWorkers
    /\ IdleParse
    /\ ctxDone = FALSE
    /\ certs \in SeqsUpTo(BuildEndpoints, MaxEndpoints)
    /\ lastScan \in {<<rs>> : rs \in SeqsUpTo(BuildResults, MaxEndpoints)}
    /\ state \in {EmptyState,
                  [EmptyState EXCEPT !.AgentID = "id1", !.PreviousAgentID = "id0"]}
    /\ disk = <<>>
    /\ apc = "build" /\ task = "idle"
    /\ syncReq = <<>> /\ syncRet = <<>> /\ hbReq = <<>> /\ did = <<>>
    /\ lastErr = "" /\ clearRet = <<>> /\ recorded = <<>>
    /\ IdleLock
    /\ IdleCertManager

\* req := c.buildSyncRequest(certs, results)
Build ==
    /\ apc = "build"
    /\ syncReq' = <<buildSyncRequest(certs, lastScan[1])>>
    /\ apc' = "built"
    /\ UNCHANGED <<state, disk, lastScan, task, syncRet, hbReq, did,
                 lastErr, clearRet, mu, flows, recorded>>
    /\ UNCHANGED scanVars
    /\ UNCHANGED parseVars
    /\ UNCHANGED cmVars

NextBuild == Build

SpecBuild == InitBuild /\ [][NextBuild]_vars

(***************************************************************************)
(* state.Manager: the setters, and Save.  Save also stamps LastUpdated,    *)
(* which nothing reads and the model leaves out.                           *)
(***************************************************************************)
SetAgentID(st, id) == [st EXCEPT !.AgentID = id]

\* Variant: the name kept as it was.
SetAgentNameKeepsOld(st, name) == st

SetAgentName(st, name) == [st EXCEPT !.AgentName = name]

SetLastSyncAt(st, t) == [st EXCEPT !.LastSyncAt = t]

SetPreviousAgentID(st, id) == [st EXCEPT !.PreviousAgentID = id]

ClearPreviousAgentID(st) == [st EXCEPT !.PreviousAgentID = ""]

\* Variant: a clear that resets the whole identity.
ClearAgentIDResetsAll(st) == EmptyState

ClearAgentID(st) == [st EXCEPT !.AgentID = ""]

\* Variant: a Save that reports success and writes nothing.
SaveOutcomesNoWrite(st, file) ==
    {[disk |-> file, err |-> FALSE], [disk |-> file, err |-> TRUE]}

\* Variant: a Save whose file lacks the sync time.
SaveOutcomesDropsLastSyncAt(st, file) ==
    {[disk |-> <<[st EXCEPT !.LastSyncAt = ZeroTime]>>, err |-> FALSE],
     [disk |-> file, err |-> TRUE]}

\* Save: os.WriteFile stores the identity, or fails and leaves the file alone.
SaveOutcomes(st, file) ==
    {[disk |-> <<st>>, err |-> FALSE], [disk |-> file, err |-> TRUE]}

(***************************************************************************)
(* sync.Client.Sync after doRequest: what the server's answer does to the  *)
(* identity.                                                               *)
(***************************************************************************)
\* The sync time the server reports: later than any the state file holds.
ServerTimes == {<<2>>}
AgentIDs == {"id1", "id2"}

\* doRequest's error returns: transport failure, status >= 400 with and
\* without a structured body, unparseable body.
SyncErrors == {"request failed", "API error", "API returned status",
               "failed to parse response"}

\* What doRequest returns: (nil, err), or (resp, nil) with resp as decoded.
SyncReplies ==
    [err : SyncErrors, Success : {FALSE}, AgentID : {""},
     SyncedAt : {ZeroTime}, Migrated : {0}]
    \cup [err : {""}, Success : BOOLEAN, AgentID : AgentIDs \cup {""},
          SyncedAt : ServerTimes, Migrated : {0, 1}]

\* The HTTP statuses tried: OK, a rejected API key, a server failure.
StatusOK == 200
StatusUnauthorized == 401
StatusServerError == 500
ErrorStatuses == {StatusUnauthorized, StatusServerError}

\* Response bodies: bytes that are not JSON, a structured {code, message}
\* error, and a SyncResponse document.
GarbageBody == [kind |-> "garbage"]
ErrorBody == [kind |-> "error", code |-> "INVALID_API_KEY"]
SyncBodies ==
    [kind : {"sync"}, Success : BOOLEAN, AgentID : AgentIDs \cup {""},
     SyncedAt : ServerTimes, Migrated : {0, 1}]

\* What the HTTP exchange can come to: no response, or a status and a body.
\* With an error status the bodies tried are the two error shapes and one
\* document that would register the agent if it were read.
HttpOutcomes ==
    {[kind |-> "transport", status |-> 0, body |-> GarbageBody]}
    \cup [kind : {"response"}, status : ErrorStatuses,
          body : {GarbageBody, ErrorBody,
                  [kind |-> "sync", Success |-> TRUE, AgentID |-> "id2",
                   SyncedAt |-> <<2>>, Migrated |-> 1]}]
    \cup [kind : {"response"}, status : {StatusOK},
          body : {GarbageBody, ErrorBody} \cup SyncBodies]

\* (nil, err)
NilResponse(err) ==
    [err |-> err, Success |-> FALSE, AgentID |-> "", SyncedAt |-> ZeroTime,
     Migrated |-> 0]

\* json.Unmarshal of a body into a SyncResponse: the fields the document
\* has; a document with an "error" member only leaves the others zero.
DecodedResponse(body) ==
    IF body.kind = "sync"
    THEN [err |-> "", Success |-> body.Success, AgentID |-> body.AgentID,
          SyncedAt |-> body.SyncedAt, Migrated |-> body.Migrated]
    ELSE NilResponse("")

\* Variant: the body decoded whatever the status.
doRequestIgnoresStatus(h) ==
    IF h.kind = "transport" THEN NilResponse("request failed")
    ELSE IF h.body.kind = "garbage" THEN NilResponse("failed to parse response")
    ELSE DecodedResponse(h.body)

\* Client.doRequest from httpClient.Do on.
doRequest(h) ==
    IF h.kind = "transport" THEN NilResponse("request failed")
    ELSE IF h.status >= 400
         THEN IF h.body.kind = "error" THEN NilResponse("API error")
              ELSE NilResponse("API returned status")
    ELSE IF h.body.kind = "garbage" THEN NilResponse("failed to parse response")
    ELSE DecodedResponse(h.body)

\* Variant: previousAgentID dropped whatever the response counts.
ClearsPreviousAlways(st, resp) == st.PreviousAgentID # ""

\* "if c.stateManager.GetPreviousAgentID() != "" && resp.Data.Migrated > 0"
ClearsPrevious(st, resp) == st.PreviousAgentID # "" /\ resp.Migrated > 0

\* "if resp.Success && resp.AgentID != """
AcceptsIdentity(resp) == resp.err = "" /\ resp.Success /\ resp.AgentID # ""

\* The setters Sync calls, in order, on an accepted response.
SyncUpdate(st, resp) ==
    LET s1 == SetAgentID(st, resp.AgentID)
        s2 == SetAgentName(s1, ConfiguredName)
        s3 == SetLastSyncAt(s2, resp.SyncedAt)
    IN  IF ClearsPrevious(s3, resp) THEN ClearPreviousAgentID(s3) ELSE s3

(***************************************************************************)
(* agent.Agent.Run: the start-up scan and sync, then one handler per tick, *)
(* all on one goroutine.  A ScanAll call is one step here; the clock       *)
(* advances by one with every scan cycle, and at most MaxScans cycles run. *)
(***************************************************************************)
workerVars == <<concurrency, results, sem, wg, spawned, wpc, wresp, mainpc, returned>>
parserVars == <<chainIn, hostIn, ppc, certOut, chainOut>>

\* cfg.Certificates: the agent's endpoint list is fixed for the run; the
\* configurations tried are the first k endpoints, in one order.
AgentConfigs ==
    LET a == CHOOSE e \in Endpoints : e.Hostname = "a.example"
        b == CHOOSE e \in Endpoints : e.Hostname = "b.example"
    IN  {SubSeq(<<a, b>>, 1, k) : k \in 1..MaxAgentEndpoints}

\* What the state file can hold when the agent starts.
PersistedStates ==
    {EmptyState,
     [AgentID |-> "id1", AgentName |-> ConfiguredName, PreviousAgentID |-> "",
      LastSyncAt |-> <<1>>],
     [AgentID |-> "id1", AgentName |-> "agent-0", PreviousAgentID |-> "id0",
      LastSyncAt |-> <<1>>],
     [AgentID |-> "", AgentName |-> "agent-0", PreviousAgentID |-> "id0",
      LastSyncAt |-> ZeroTime]}

\* Variant: a file that does not parse leaves what was decoded of it.
LoadResultsKeepsPartial(st, file) ==
    IF file = <<>> THEN {[state |-> EmptyState, err |-> ""]}
    ELSE {[state |-> st, err |-> "failed to read state file"],
          [state |-> file[1], err |-> "failed to parse state file"],
          [state |-> file[1], err |-> ""]}

\* Manager.Load on a manager holding st: no file gives the empty identity
\* and nil; a read error leaves m.state alone; a parse error gives the empty
\* identity (Unmarshal fills a local); otherwise the identity the file holds.
\* Whether an existing file reads and parses is not the model's to know.
LoadResults(st, file) ==
    IF file = <<>> THEN {[state |-> EmptyState, err |-> ""]}
    ELSE {[state |-> st, err |-> "failed to read state file"],
          [state |-> EmptyState, err |-> "failed to parse state file"],
          [state |-> file[1], err |-> ""]}

\* Load at start-up, on the manager NewManager has just made.
LoadOutcomes(file) == {r.state : r \in LoadResults(EmptyState, file)}

\* What one worker of ScanAll can leave in its cell.
ScanOutcomes(c, done) ==
    {Scan(done, c.Hostname, c.Port, resp, now) : resp \in NetResponses}
    \cup (IF done THEN {CanceledResult(c)} ELSE {})

\* What ScanAll(ctx, certs) can return.
Batches(cs, done) ==
    LET cell == [i \in 1..Len(cs) |-> ScanOutcomes(cs[i], done)]
    IN  {b \in [1..Len(cs) -> UNION {cell[i] : i \in 1..Len(cs)}] :
            \A i \in 1..Len(cs) : b[i] \in cell[i]}

\* Variant: the cell keeps the first batch it was given.
StoreBatchKeepsFirst(old, batch) == IF old = <<>> THEN <<batch>> ELSE old

\* a.lastScan = results
StoreBatch(old, batch) == <<batch>>

InitAgent ==
    /\ IdleWorkers
    /\ chainIn = <<>> /\ hostIn = "" /\ ppc = "idle"
    /\ certOut = <<>> /\ chainOut = <<>>
    /\ now = 0
    /\ ctxDone = FALSE
    /\ certs \in AgentConfigs
    /\ disk \in {<<>>} \cup {<<st>> : st \in PersistedStates}
    /\ state \in LoadOutcomes(disk)
    /\ lastScan = <<>>
    /\ task = "startup" /\ apc = "scan"
    /\ syncReq = <<>> /\ syncRet = <<>> /\ hbReq = <<>> /\ did = <<>>
    /\ lastErr = "" /\ clearRet = <<>> /\ recorded = <<>>
    /\ IdleLock
    /\ IdleCertManager

\* Variant: every scan returns to Run's loop, scanAndSync's included.
AfterScanReturnsAlways == "return"

\* Where a handler goes when its scan is done: scanAndSync and syncWithCloud
\* go on to sync, the scan tick returns to the loop.
AfterScan == IF task = "scanTick" THEN "return" ELSE "sync"

\* The slice a.lastScan holds; nil is a slice without elements.
ResultsOf(cell) == IF cell = <<>> THEN <<>> ELSE cell[1]

\* Variant: syncWithCloud that never scans first.
NeedsScanFirstNever(cell) == FALSE

\* "if a.lastScan == nil": syncWithCloud scans before it syncs.
NeedsScanFirst(cell) == cell = <<>>

\* Variant: Sync that reports a failed Save to its caller.
SyncErrorOnSaveFailure(resp, saveErr) ==
    IF resp.err # "" THEN resp.err
    ELSE IF saveErr THEN "failed to write state file" ELSE ""

\* The error Sync returns: doRequest's, or nil; a failed Save is only logged.
SyncError(resp, saveErr) == resp.err

\* What syncWithCloud records once Sync has returned: RecordSyncFailure on an
\* error; otherwise RecordSyncSuccess and server.RecordSync(), whatever the
\* response says.
SyncOutcome(err) == IF err # "" THEN "failure" ELSE "success"

\* What the handler makes of the error syncWithCloud returned: scanAndSync
\* wraps it, and sendHeartbeat's recovery wraps scanAndSync's.
HandlerError(handler, err) ==
    IF err = "" THEN ""
    ELSE IF handler = "startup" THEN "sync failed: " \o err
    ELSE IF handler = "recovery"
         THEN "agent deleted, re-registration failed: sync failed: " \o err
    ELSE err

\* Variant: Run that gives up when a handler fails.
AfterHandlerAbortsOnError(err) == IF err = "" THEN "loop" ELSE "stopped"

\* Run logs a handler's error and goes (back) to its select loop.
AfterHandler(err) == "loop"

\* Variant: a ticker case taken while a handler is still running.
SelectReadyAnyTime == TRUE

\* Run reaches its select only between handlers: each case calls its handler
\* and waits for it to return.
SelectReady == apc = "loop"

\* Variant: a select without the ctx.Done() case.
StopReadyNever == FALSE

\* "case <-ctx.Done()" is ready once the context is cancelled.
StopReady == ctxDone

\* Agent.scan, per successful result with a certificate: the validity flag
\* handed to metrics.RecordCertificateMetrics.
\* valid := r.Certificate.DaysUntilExpiry >= 0
CertificateValid(cert) == cert.DaysUntilExpiry >= 0

\* Agent.scan: results := ScanAll(ctx, certs); a.lastScan = results
AgentScan ==
    /\ apc = "scan"
    /\ now < MaxScans
    /\ \E batch \in Batches(certs, ctxDone) :
          lastScan' = StoreBatch(lastScan, batch)
    /\ now' = now + 1
    /\ did' = Append(did, "scan")
    /\ apc' = AfterScan
    /\ UNCHANGED <<state, disk, task, syncReq, syncRet, hbReq,
                 lastErr, clearRet, mu, flows, recorded>>
    /\ UNCHANGED <<certs, ctxDone, workerVars, parserVars, cmVars>>

\* Agent.syncWithCloud up to the HTTP exchange: scan first if no batch is
\* cached, else Client.Sync builds the request and sends it.
SyncStart ==
    /\ apc = "sync"
    /\ IF NeedsScanFirst(lastScan)
       THEN /\ apc' = "scan"
            /\ UNCHANGED <<syncReq, did>>
       ELSE /\ syncReq' = <<buildSyncRequest(certs, ResultsOf(lastScan))>>
            /\ did' = Append(did, "sync")
            /\ apc' = "syncWait"
    /\ UNCHANGED <<state, disk, lastScan, task, syncRet, hbReq,
                 lastErr, clearRet, mu, flows, recorded>>
    /\ UNCHANGED <<certs, ctxDone, now, workerVars, parserVars, cmVars>>

\* Client.Sync from doRequest's return to its own: on an accepted response
\* the setters run and the identity is saved; a failed Save is only logged.
SyncReply ==
    /\ apc = "syncWait"
    /\ \E h \in HttpOutcomes :
          LET resp == doRequest(h)
          IN  IF AcceptsIdentity(resp)
              THEN \E saved \in SaveOutcomes(SyncUpdate(state, resp), disk) :
                      /\ state' = SyncUpdate(state, resp)
                      /\ disk' = saved.disk
                      /\ syncRet' = <<[resp |-> resp, saveErr |-> saved.err,
                                       http |-> h]>>
                      /\ lastErr' = SyncError(resp, saved.err)
              ELSE /\ syncRet' = <<[resp |-> resp, saveErr |-> FALSE, http |-> h]>>
                   /\ lastErr' = SyncError(resp, FALSE)
                   /\ UNCHANGED <<state, disk>>
    /\ apc' = "syncEnd"
    /\ UNCHANGED <<lastScan, task, syncReq, hbReq, did, clearRet, mu, flows, recorded>>
    /\ UNCHANGED <<certs, ctxDone, now, workerVars, parserVars, cmVars>>

\* syncWithCloud records the outcome and returns Sync's error to its caller;
\* Sync's frame is gone.
SyncEnd ==
    /\ apc = "syncEnd"
    /\ apc' = "return"
    /\ syncReq' = <<>>
    /\ syncRet' = <<>>
    /\ lastErr' = HandlerError(task, lastErr)
    /\ recorded' = <<SyncOutcome(lastErr)>>
    /\ UNCHANGED <<state, disk, lastScan, task, hbReq, did, clearRet, mu, flows>>
    /\ UNCHANGED <<certs, ctxDone, now, workerVars, parserVars, cmVars>>

\* doHeartbeatRequest's error returns: transport failure, status >= 400,
\* unparseable body.
HeartbeatFailures == {"heartbeat request failed", "heartbeat API returned status",
                      "failed to parse heartbeat response"}

\* The error Heartbeat returns when the server no longer knows the agent.
ErrAgentNotFound == "agent not found"

\* What Heartbeat can return once the request is out; "" is nil.
HeartbeatReplies == {""} \cup HeartbeatFailures \cup {ErrAgentNotFound}

\* Variant: a heartbeat sent whatever the agent ID is.
HeartbeatSendsAlways(agentID) == TRUE

\* "if agentID == "" { return nil }": the request goes out otherwise.
HeartbeatSends(agentID) == agentID # ""

\* Variant: recovery that syncs without scanning.
AfterClearSyncOnly == "sync"

\* sendHeartbeat after ClearAgentID: scanAndSync, which starts with the scan.
AfterClear == "scan"

\* Client.ClearAgentID: the manager's ClearAgentID, then Save.
ClientClearAgentID(st, file) ==
    {[state |-> ClearAgentID(st), disk |-> saved.disk, err |-> saved.err] :
        saved \in SaveOutcomes(ClearAgentID(st), file)}

\* Variant: any heartbeat failure taken for a deleted agent.
IsAgentNotFoundAnyError(err) == err # ""

\* errors.Is(err, sync.ErrAgentNotFound)
IsAgentNotFound(err) == err = ErrAgentNotFound

\* Client.Heartbeat up to the HTTP exchange.
HeartbeatStart ==
    /\ apc = "heartbeat"
    /\ IF HeartbeatSends(state.AgentID)
       THEN /\ hbReq' = <<[AgentID |-> state.AgentID, AgentName |-> ConfiguredName,
                           CertificateCount |-> Len(certs), Status |-> "healthy"]>>
            /\ did' = Append(did, "heartbeat")
            /\ apc' = "heartbeatWait"
       ELSE /\ apc' = "return"
            /\ UNCHANGED <<hbReq, did>>
    /\ UNCHANGED <<state, disk, lastScan, task, syncReq, syncRet,
                 lastErr, clearRet, mu, flows, recorded>>
    /\ UNCHANGED <<certs, ctxDone, now, workerVars, parserVars, cmVars>>

\* Heartbeat returns; sendHeartbeat tells the not-found error from the rest.
HeartbeatReply ==
    /\ apc = "heartbeatWait"
    /\ \E err \in HeartbeatReplies :
          /\ lastErr' = err
          /\ IF IsAgentNotFound(err)
             THEN /\ now < MaxScans
                  /\ task' = "recovery"
                  /\ apc' = "clear"
             ELSE /\ apc' = "return"
                  /\ UNCHANGED task
    /\ UNCHANGED <<state, disk, lastScan, syncReq, syncRet, hbReq, did,
                 clearRet, mu, flows, recorded>>
    /\ UNCHANGED <<certs, ctxDone, now, workerVars, parserVars, cmVars>>

\* a.client.ClearAgentID(): its error is only logged, scanAndSync comes next.
Recover ==
    /\ apc = "clear"
    /\ \E out \in ClientClearAgentID(state, disk) :
          /\ state' = out.state
          /\ disk' = out.disk
          /\ clearRet' = <<out.err>>
    /\ did' = Append(did, "clear")
    /\ apc' = AfterClear
    /\ UNCHANGED <<lastScan, task, syncReq, syncRet, hbReq, lastErr, mu, flows, recorded>>
    /\ UNCHANGED <<certs, ctxDone, now, workerVars, parserVars, cmVars>>

\* The handler returns to Run, which logs its error; its call frames are gone.
Return ==
    /\ apc = "return"
    /\ apc' = AfterHandler(lastErr)
    /\ task' = "loop"
    /\ syncReq' = <<>> /\ syncRet' = <<>> /\ hbReq' = <<>> /\ did' = <<>>
    /\ lastErr' = "" /\ clearRet' = <<>> /\ recorded' = <<>>
    /\ UNCHANGED <<state, disk, lastScan, mu, flows>>
    /\ UNCHANGED <<certs, ctxDone, now, workerVars, parserVars, cmVars>>

\* Run's select, one case per channel.  A ready ticker can be chosen whether
\* or not ctx.Done() is ready too.
\* case <-scanTicker.C: a.scan(ctx)
ScanTick ==
    /\ SelectReady
    /\ now < MaxScans
    /\ task' = "scanTick"
    /\ apc' = "scan"
    /\ UNCHANGED <<state, disk, lastScan, syncReq, syncRet, hbReq, did,
                 lastErr, clearRet, mu, flows, recorded>>
    /\ UNCHANGED <<certs, ctxDone, now, workerVars, parserVars, cmVars>>

\* case <-syncTicker.C: a.syncWithCloud(ctx)
SyncTick ==
    /\ SelectReady
    /\ task' = "syncTick"
    /\ apc' = "sync"
    /\ UNCHANGED <<state, disk, lastScan, syncReq, syncRet, hbReq, did,
                 lastErr, clearRet, mu, flows, recorded>>
    /\ UNCHANGED <<certs, ctxDone, now, workerVars, parserVars, cmVars>>

\* case <-heartbeatChan: a.sendHeartbeat(ctx)
HeartbeatTick ==
    /\ SelectReady
    /\ task' = "heartbeatTick"
    /\ apc' = "heartbeat"
    /\ UNCHANGED <<state, disk, lastScan, syncReq, syncRet, hbReq, did,
                 lastErr, clearRet, mu, flows, recorded>>
    /\ UNCHANGED <<certs, ctxDone, now, workerVars, parserVars, cmVars>>

\* case <-ctx.Done(): return ctx.Err()
Stop ==
    /\ SelectReady
    /\ StopReady
    /\ apc' = "stopped"
    /\ UNCHANGED <<state, disk, lastScan, task, syncReq, syncRet, hbReq, did,
                 lastErr, clearRet, mu, flows, recorded>>
    /\ UNCHANGED <<certs, ctxDone, now, workerVars, parserVars, cmVars>>

NextAgent ==
    \/ Cancel
    \/ AgentScan
    \/ SyncStart
    \/ SyncReply
    \/ SyncEnd
    \/ HeartbeatStart
    \/ HeartbeatReply
    \/ Recover
    \/ Return
    \/ ScanTick
    \/ SyncTick
    \/ HeartbeatTick
    \/ Stop

SpecAgent == InitAgent /\ [][NextAgent]_vars

\* A step of the handler under way: the calls a handler makes return.
HandlerStep ==
    \/ AgentScan
    \/ SyncStart
    \/ SyncReply
    \/ SyncEnd
    \/ HeartbeatStart
    \/ HeartbeatReply
    \/ Recover
    \/ Return

\* Run with its scheduling: every call in flight terminates, and select,
\* which picks among its ready cases at random, does not pass over a ready
\* ctx.Done() case for ever.
\* The scheduling is looked at with one endpoint configured: how many
\* endpoints a scan covers has no bearing on which case select takes.
InitFairAgent ==
    /\ InitAgent
    /\ Len(certs) = 1

FairSpecAgent ==
    /\ InitFairAgent
    /\ [][NextAgent]_vars
    /\ WF_vars(HandlerStep)
    /\ SF_vars(Stop)

\* Run while its sync ticker keeps firing: the ticks are not all passed over
\* by select, and the calls in flight terminate.
FairSpecSyncTicks ==
    /\ InitFairAgent
    /\ [][NextAgent]_vars
    /\ WF_vars(HandlerStep)
    /\ SF_vars(SyncTick)

(***************************************************************************)
(* Agent.syncWithCloud on its own: one call, on an agent whose cell is     *)
(* still nil (as New leaves it) or holds the batch of a completed scan.    *)
(***************************************************************************)
InitSyncWithCloud ==
    /\ IdleWorkers
    /\ chainIn = <<>> /\ hostIn = "" /\ ppc = "idle"
    /\ certOut = <<>> /\ chainOut = <<>>
    /\ ctxDone \in BOOLEAN
    /\ certs \in AgentConfigs
    /\ disk \in {<<>>} \cup {<<st>> : st \in PersistedStates}
    /\ state \in LoadOutcomes(disk)
    /\ \/ now = 0 /\ lastScan = <<>>
       \/ now = 1 /\ lastScan \in {<<b>> : b \in Batches(certs, ctxDone)}
    /\ task = "syncTick" /\ apc = "sync"
    /\ syncReq = <<>> /\ syncRet = <<>> /\ hbReq = <<>> /\ did = <<>>
    /\ lastErr = "" /\ clearRet = <<>> /\ recorded = <<>>
    /\ IdleLock
    /\ IdleCertManager

NextSyncWithCloud ==
    \/ AgentScan
    \/ SyncStart
    \/ SyncReply
    \/ SyncEnd

SpecSyncWithCloud == InitSyncWithCloud /\ [][NextSyncWithCloud]_vars

(***************************************************************************)
(* Start-up of the process: run makes a manager, loads the state file and  *)
(* goes on to create the agent.                                            *)
(***************************************************************************)
\* What a state file written by some earlier run can hold.
StateFiles ==
    [AgentID : {"", "id1"}, AgentName : {"", ConfiguredName, "agent-0"},
     PreviousAgentID : {"", "id0"}, LastSyncAt : {ZeroTime, <<1>>}]

\* stateManager := state.NewManager(cfgFile)
InitLoad ==
    /\ IdleWorkers
    /\ IdleParse
    /\ certs = <<>> /\ ctxDone = FALSE
    /\ disk \in {<<>>} \cup {<<st>> : st \in StateFiles}
    /\ state = EmptyState
    /\ lastScan = <<>>
    /\ apc = "load" /\ task = "idle"
    /\ syncReq = <<>> /\ syncRet = <<>> /\ hbReq = <<>> /\ did = <<>>
    /\ lastErr = "" /\ clearRet = <<>> /\ recorded = <<>>
    /\ IdleLock
    /\ IdleCertManager

\* loadErr := stateManager.Load()
Load ==
    /\ apc = "load"
    /\ \E r \in LoadResults(state, disk) :
          /\ state' = r.state
          /\ lastErr' = r.err
    /\ apc' = "loaded"
    /\ UNCHANGED <<disk, lastScan, task, syncReq, syncRet, hbReq, did,
                 clearRet, mu, flows, recorded>>
    /\ UNCHANGED scanVars
    /\ UNCHANGED parseVars
    /\ UNCHANGED cmVars

\* run prints loadErr, if any, and creates the agent.
Proceed ==
    /\ apc = "loaded"
    /\ apc' = "created"
    /\ UNCHANGED <<state, disk, lastScan, task, syncReq, syncRet, hbReq, did,
                 lastErr, clearRet, mu, flows, recorded>>
    /\ UNCHANGED scanVars
    /\ UNCHANGED parseVars
    /\ UNCHANGED cmVars

NextLoad ==
    \/ Load
    \/ Proceed

SpecLoad == InitLoad /\ [][NextLoad]_vars

(***************************************************************************)
(* state.Manager under concurrent callers: the cert-manager agent runs its *)
(* sync loop and its heartbeat loop as two goroutines that share one       *)
(* manager.  A method call is three steps: take m.mu, touch m.state (and   *)
(* the file), release m.mu by the deferred unlock.  A writer that waits    *)
(* also holds back new readers in sync.RWMutex; the model admits a reader  *)
(* whenever no writer holds the lock, which allows every interleaving the  *)
(* mutex allows.                                                           *)
(***************************************************************************)
\* go a.syncLoop(ctx); go a.heartbeatLoop(ctx)
Flows == {"syncLoop", "heartbeatLoop"}

\* The methods whose body only reads m.state.
ReadMethods == {"GetAgentID", "GetAgentName", "GetPreviousAgentID",
                "GetLastSyncAt", "HasNameChanged", "HasState"}

\* The methods whose body assigns m.state or one of its fields; Save stamps
\* LastUpdated before it marshals.
WriteMethods == {"Load", "Save", "SetAgentID", "ClearAgentID", "SetAgentName",
                 "SetPreviousAgentID", "ClearPreviousAgentID", "SetLastSyncAt",
                 "Reset"}

Methods == ReadMethods \cup WriteMethods

\* Variant: Save under the read lock.
LockModeSaveShared(method) ==
    IF method \in {"GetAgentID", "GetAgentName", "GetPreviousAgentID",
                   "GetLastSyncAt", "HasNameChanged", "HasState", "Save"}
    THEN "RLock" ELSE "Lock"

\* The first statement of each method: m.mu.RLock() or m.mu.Lock().
LockMode(method) ==
    IF method \in {"GetAgentID", "GetAgentName", "GetPreviousAgentID",
                   "GetLastSyncAt", "HasNameChanged", "HasState"}
    THEN "RLock" ELSE "Lock"

\* sync.RWMutex: RLock returns while no writer holds the lock, Lock while
\* nobody does.
CanLock(mode, m) ==
    IF mode = "RLock" THEN ~m.writer ELSE ~m.writer /\ m.readers = 0

AfterLock(mode, m) ==
    IF mode = "RLock" THEN [m EXCEPT !.readers = @ + 1]
    ELSE [m EXCEPT !.writer = TRUE]

\* RUnlock and Unlock.
AfterUnlock(mode, m) ==
    IF mode = "RLock" THEN [m EXCEPT !.readers = @ - 1]
    ELSE [m EXCEPT !.writer = FALSE]

\* Reset: the empty identity, and the file removed unless os.Remove fails.
ResetOutcomes(st, file) ==
    {[state |-> EmptyState, disk |-> <<>>, err |-> FALSE]}
    \cup (IF file = <<>> THEN {}
          ELSE {[state |-> EmptyState, disk |-> file, err |-> TRUE]})

\* What a method's body leaves in m.state and in the file.
MethodOutcomes(method, st, file) ==
    CASE method = "SetAgentID" ->
            {[state |-> SetAgentID(st, id), disk |-> file] : id \in AgentIDs}
      [] method = "ClearAgentID" ->
            {[state |-> ClearAgentID(st), disk |-> file]}
      [] method = "SetAgentName" ->
            {[state |-> SetAgentName(st, ConfiguredName), disk |-> file]}
      [] method = "SetPreviousAgentID" ->
            {[state |-> SetPreviousAgentID(st, "id0"), disk |-> file]}
      [] method = "ClearPreviousAgentID" ->
            {[state |-> ClearPreviousAgentID(st), disk |-> file]}
      [] method = "SetLastSyncAt" ->
            {[state |-> SetLastSyncAt(st, t), disk |-> file] : t \in ServerTimes}
      [] method = "Save" ->
            {[state |-> st, disk |-> saved.disk] : saved \in SaveOutcomes(st, file)}
      [] method = "Load" ->
            {[state |-> r.state, disk |-> file] : r \in LoadResults(st, file)}
      [] method = "Reset" ->
            {[state |-> r.state, disk |-> r.disk] : r \in ResetOutcomes(st, file)}
      [] OTHER -> {[state |-> st, disk |-> file]}

IdleFlow == [pc |-> "idle", method |-> ""]

InitLock ==
    /\ IdleWorkers
    /\ IdleParse
    /\ certs = <<>> /\ ctxDone = FALSE
    /\ disk \in {<<>>} \cup {<<st>> : st \in PersistedStates}
    /\ state \in LoadOutcomes(disk)
    /\ lastScan = <<>>
    /\ apc = "idle" /\ task = "idle"
    /\ syncReq = <<>> /\ syncRet = <<>> /\ hbReq = <<>> /\ did = <<>>
    /\ lastErr = "" /\ clearRet = <<>> /\ recorded = <<>>
    /\ mu = [readers |-> 0, writer |-> FALSE]
    /\ flows = [f \in Flows |-> IdleFlow]
    /\ IdleCertManager

\* m.mu.RLock() / m.mu.Lock(): the call returns once the mutex admits it.
MuLock(f) ==
    /\ flows[f].pc = "idle"
    /\ \E method \in Methods :
          /\ CanLock(LockMode(method), mu)
          /\ mu' = AfterLock(LockMode(method), mu)
          /\ flows' = [flows EXCEPT ![f] = [pc |-> "locked", method |-> method]]
    /\ UNCHANGED <<state, disk, lastScan, apc, task, syncReq, syncRet, hbReq, did,
                 lastErr, clearRet, recorded>>
    /\ UNCHANGED scanVars
    /\ UNCHANGED parseVars
    /\ UNCHANGED cmVars

\* The method's body.
MuAccess(f) ==
    /\ flows[f].pc = "locked"
    /\ \E out \in MethodOutcomes(flows[f].method, state, disk) :
          /\ state' = out.state
          /\ disk' = out.disk
    /\ flows' = [flows EXCEPT ![f].pc = "accessed"]
    /\ UNCHANGED <<mu, lastScan, apc, task, syncReq, syncRet, hbReq, did,
                 lastErr, clearRet, recorded>>
    /\ UNCHANGED scanVars
    /\ UNCHANGED parseVars
    /\ UNCHANGED cmVars

\* defer m.mu.RUnlock() / defer m.mu.Unlock()
MuUnlock(f) ==
    /\ flows[f].pc = "accessed"
    /\ mu' = AfterUnlock(LockMode(flows[f].method), mu)
    /\ flows' = [flows EXCEPT ![f] = IdleFlow]
    /\ UNCHANGED <<state, disk, lastScan, apc, task, syncReq, syncRet, hbReq, did,
                 lastErr, clearRet, recorded>>
    /\ UNCHANGED scanVars
    /\ UNCHANGED parseVars
    /\ UNCHANGED cmVars

NextLock ==
    \E f \in Flows :
        \/ MuLock(f)
        \/ MuAccess(f)
        \/ MuUnlock(f)

SpecLock == InitLock /\ [][NextLock]_vars

(***************************************************************************)
(* The cert-manager agent (internal/certmanager): the CertificateReconciler *)
(* keeps the watched certificates in a map guarded by a RWMutex; every      *)
(* method below holds the lock for its whole body, so each is one step.     *)
(***************************************************************************)
MaxOps == 4

coreVars == <<scanVars, parseVars, state, disk, lastScan, apc, task, syncReq,
              syncRet, hbReq, did, lastErr, clearRet, recorded, mu, flows>>
eventVars == <<events, reconciled, immediateSyncPending, isync, esync,
               syncLoopPc, delivered, drained>>

Namespaces == {"default", "prod"}
Names == {"web", "api"}
CertificateStatuses == [Namespace : Namespaces, Name : Names, Ready : BOOLEAN]

\* key := status.Name, the namespace left out.
storeCertificateKeyByName(m, status) ==
    LET key == status.Name
    IN  [k \in DOMAIN m \cup {key} |-> IF k = key THEN status ELSE m[k]]

\* key := status.Namespace + "/" + status.Name; r.certificates[key] = status
storeCertificate(m, status) ==
    LET key == status.Namespace \o "/" \o status.Name
    IN  [k \in DOMAIN m \cup {key} |-> IF k = key THEN status ELSE m[k]]

\* key := namespace + "/" + name; delete(r.certificates, key)
removeCertificate(m, namespace, name) ==
    LET key == namespace \o "/" \o name
    IN  [k \in DOMAIN m \ {key} |-> m[k]]

\* len(r.certificates)
CertificateCount(m) == Cardinality(DOMAIN m)

\* The orders in which a range over a map of these keys may visit them.
Orderings(keys) ==
    {q \in [1..Cardinality(keys) -> keys] :
        \A i, j \in 1..Cardinality(keys) : q[i] = q[j] => i = j}

\* for k := range r.certificates { certs = append(certs, r.certificates[k]) }:
\* every slice the call may return, one per iteration order.
GetCertificates(m) ==
    {[i \in 1..Len(q) |-> m[q[i]]] : q \in Orderings(DOMAIN m)}

InitReconciler ==
    /\ IdleScanAll
    /\ IdleParse
    /\ IdleAgent

\* Reconcile found the Certificate and stored its status.
StoreCertificate ==
    /\ Len(ops) < MaxOps
    /\ \E status \in CertificateStatuses :
          /\ certificates' = storeCertificate(certificates, status)
          /\ ops' = Append(ops, [op |-> "store", Namespace |-> status.Namespace,
                                 Name |-> status.Name, status |-> <<status>>])
    /\ UNCHANGED coreVars
    /\ UNCHANGED eventVars

\* Reconcile found the Certificate deleted.
RemoveCertificate ==
    /\ Len(ops) < MaxOps
    /\ \E namespace \in Namespaces, name \in Names :
          /\ certificates' = removeCertificate(certificates, namespace, name)
          /\ ops' = Append(ops, [op |-> "remove", Namespace |-> namespace,
                                 Name |-> name, status |-> <<>>])
    /\ UNCHANGED coreVars
    /\ UNCHANGED eventVars

NextReconciler ==
    \/ StoreCertificate
    \/ RemoveCertificate

SpecReconciler == InitReconciler /\ [][NextReconciler]_vars

(***************************************************************************)
(* The cert-manager agent's event path: EventWatcher.Reconcile buffers     *)
(* events and, on a failure event, starts scheduleImmediateEventSync in a  *)
(* goroutine; a CertificateRequest failure starts doEventSync in a         *)
(* goroutine; syncLoop runs doSync and doRequestSync at start and on every *)
(* tick.  An event's age is its Timestamp against time.Now(): "recent"     *)
(* within the last 5 minutes, "kept" within maxAge (30 minutes), "old"     *)
(* beyond it.                                                              *)
(***************************************************************************)
MaxEvents == 2
MaxRequestFailures == 1

Ages == {"recent", "kept", "old"}
Older(age) == IF age = "recent" THEN "kept" ELSE "old"
EventIds == 1..MaxEvents
CertManagerEvents == [id : EventIds, IsFailure : BOOLEAN, age : Ages]

\* The ids of the events in a slice.
IdsOf(evs) == {evs[i].id : i \in 1..Len(evs)}

WithinMaxAge(e) == e.age # "old"
WithinRecent(e) == e.age = "recent"

\* w.events = append(w.events, event), then only the events newer than
\* now - maxAge stay.
storeEvent(buf, event) == SelectSeq(Append(buf, event), WithinMaxAge)

\* The events newer than now - since, the buffer untouched.
GetRecentEvents(buf) == SelectSeq(buf, WithinRecent)

\* events := w.events; w.events = make(..., 0); return events
GetEvents(buf) == [events |-> buf, buffer |-> <<>>]

\* A goroutine at its first statement, and one that has returned.
Started == [pc |-> "start", sending |-> <<>>]
Finished == [pc |-> "done", sending |-> <<>>]

\* What SyncCertManagerEvents returns: nil, or an error.
UploadOutcomes == {"", "request failed"}

InitEvents ==
    /\ IdleScanAll
    /\ IdleParse
    /\ state = EmptyState /\ disk = <<>> /\ lastScan = <<>>
    /\ apc = "idle" /\ task = "idle"
    /\ syncReq = <<>> /\ syncRet = <<>> /\ hbReq = <<>> /\ did = <<>>
    /\ lastErr = "" /\ clearRet = <<>> /\ recorded = <<>>
    /\ IdleLock
    /\ certificates = <<>> /\ ops = <<>>
    /\ events = <<>> /\ reconciled = 0
    /\ immediateSyncPending = FALSE
    /\ isync = <<>> /\ esync = <<>>
    /\ syncLoopPc = "sleep"
    /\ delivered = {} /\ drained = {}

\* EventWatcher.Reconcile for a cert-manager event: storeEvent, then
\* OnFailureEvent (go a.scheduleImmediateEventSync(ctx)) if it is a failure.
EventReconcile ==
    /\ reconciled < MaxEvents
    /\ \E isFailure \in BOOLEAN, age \in Ages :
          LET cmEvent == [id |-> reconciled + 1, IsFailure |-> isFailure, age |-> age]
          IN  /\ events' = storeEvent(events, cmEvent)
              /\ isync' = IF cmEvent.IsFailure
                            THEN [g \in DOMAIN isync \cup {cmEvent.id} |->
                                     IF g = cmEvent.id THEN Started ELSE isync[g]]
                            ELSE isync
    /\ reconciled' = reconciled + 1
    /\ UNCHANGED <<certificates, ops, immediateSyncPending, esync, syncLoopPc,
                   delivered, drained>>
    /\ UNCHANGED coreVars

\* Time passes one of the two thresholds for a buffered event.
TimePasses ==
    /\ \E i \in 1..Len(events) :
          /\ events[i].age # "old"
          /\ events' = [events EXCEPT ![i].age = Older(@)]
    /\ UNCHANGED <<certificates, ops, reconciled, immediateSyncPending, isync,
                   esync, syncLoopPc, delivered, drained>>
    /\ UNCHANGED coreVars

\* scheduleImmediateEventSync up to the sleep: return if a sync is pending,
\* else mark one pending.
ScheduleCheck(g) ==
    /\ isync[g].pc = "start"
    /\ IF immediateSyncPending
         THEN /\ isync' = [isync EXCEPT ![g] = Finished]
              /\ UNCHANGED immediateSyncPending
         ELSE /\ immediateSyncPending' = TRUE
              /\ isync' = [isync EXCEPT ![g].pc = "sleep"]
    /\ UNCHANGED <<certificates, ops, events, reconciled, esync, syncLoopPc,
                   delivered, drained>>
    /\ UNCHANGED coreVars

\* time.Sleep returns; immediateSyncPending = false.
DebounceElapsed(g) ==
    /\ isync[g].pc = "sleep"
    /\ immediateSyncPending' = FALSE
    /\ isync' = [isync EXCEPT ![g].pc = "woken"]
    /\ UNCHANGED <<certificates, ops, events, reconciled, esync, syncLoopPc,
                   delivered, drained>>
    /\ UNCHANGED coreVars

\* doImmediateEventSync: GetRecentEvents(5 min); nothing recent, return;
\* else send them.
ImmediateGet(g) ==
    /\ isync[g].pc = "woken"
    /\ LET got == GetRecentEvents(events)
       IN  isync' = IF Len(got) = 0
                      THEN [isync EXCEPT ![g] = Finished]
                      ELSE [isync EXCEPT ![g] = [pc |-> "upload", sending |-> got]]
    /\ UNCHANGED <<certificates, ops, events, reconciled, immediateSyncPending,
                   esync, syncLoopPc, delivered, drained>>
    /\ UNCHANGED coreVars

\* SyncCertManagerEvents returns to doImmediateEventSync, which logs either way.
ImmediateReply(g) ==
    /\ isync[g].pc = "upload"
    /\ \E err \in UploadOutcomes :
          delivered' = IF err = "" THEN delivered \cup IdsOf(isync[g].sending)
                       ELSE delivered
    /\ isync' = [isync EXCEPT ![g] = Finished]
    /\ UNCHANGED <<certificates, ops, events, reconciled, immediateSyncPending,
                   esync, syncLoopPc, drained>>
    /\ UNCHANGED coreVars

\* requestReconciler.OnFailure: go a.doEventSync(ctx)
RequestFailure ==
    /\ Len(esync) < MaxRequestFailures
    /\ esync' = Append(esync, Started)
    /\ UNCHANGED <<certificates, ops, events, reconciled, immediateSyncPending,
                   isync, syncLoopPc, delivered, drained>>
    /\ UNCHANGED coreVars

\* doEventSync: GetEvents(); nothing buffered, return; else send them.
EventGet(r) ==
    /\ esync[r].pc = "start"
    /\ LET got == GetEvents(events)
       IN  /\ events' = got.buffer
           /\ drained' = drained \cup IdsOf(got.events)
           /\ esync' = IF Len(got.events) = 0
                         THEN [esync EXCEPT ![r] = Finished]
                         ELSE [esync EXCEPT ![r] = [pc |-> "upload",
                                                    sending |-> got.events]]
    /\ UNCHANGED <<certificates, ops, reconciled, immediateSyncPending, isync,
                   syncLoopPc, delivered>>
    /\ UNCHANGED coreVars

\* SyncCertManagerEvents returns to doEventSync, which logs either way.
EventReply(r) ==
    /\ esync[r].pc = "upload"
    /\ \E err \in UploadOutcomes :
          delivered' = IF err = "" THEN delivered \cup IdsOf(esync[r].sending)
                       ELSE delivered
    /\ esync' = [esync EXCEPT ![r] = Finished]
    /\ UNCHANGED <<certificates, ops, events, reconciled, immediateSyncPending,
                   isync, syncLoopPc, drained>>
    /\ UNCHANGED coreVars

\* What syncLoop does next: the initial sleep or a tick is followed by
\* doSync, doSync by doRequestSync, doRequestSync by the wait for a tick.
AfterSyncLoopStep(pc) ==
    IF pc \in {"sleep", "wait"} THEN "doSync"
    ELSE IF pc = "doSync" THEN "doRequestSync"
    ELSE "wait"

\* One step of syncLoop: the sleep ends, the ticker fires, doSync returns or
\* doRequestSync returns.  Neither call reads or writes the event buffer.
SyncLoopStep ==
    /\ syncLoopPc # "idle"
    /\ syncLoopPc' = AfterSyncLoopStep(syncLoopPc)
    /\ UNCHANGED <<certificates, ops, events, reconciled, immediateSyncPending,
                   isync, esync, delivered, drained>>
    /\ UNCHANGED coreVars

ImmediateSyncStep ==
    \E g \in DOMAIN isync :
        \/ ScheduleCheck(g)
        \/ DebounceElapsed(g)
        \/ ImmediateGet(g)
        \/ ImmediateReply(g)

EventSyncStep ==
    \E r \in DOMAIN esync :
        \/ EventGet(r)
        \/ EventReply(r)

NextEvents ==
    \/ EventReconcile
    \/ TimePasses
    \/ RequestFailure
    \/ ImmediateSyncStep
    \/ EventSyncStep
    \/ SyncLoopStep

SpecEvents == InitEvents /\ [][NextEvents]_vars

\* Every started goroutine runs on, and the ticker keeps firing.
FairSpecEvents ==
    /\ InitEvents
    /\ [][NextEvents]_vars
    /\ WF_vars(ImmediateSyncStep)
    /\ WF_vars(EventSyncStep)
    /\ WF_vars(SyncLoopStep)

(***************************************************************************)
(* Properties of ScanAll (checked under SpecScanAll).                      *)
(***************************************************************************)
Written(r) == r.ScannedAt # ZeroTime
InProgress == {i \in Workers : wpc[i] = "scan"}
Waiting == {i \in Workers : wpc[i] = "select"}

\* C1: for every endpoint list of length N and every completion order of the
\* workers, ScanAll returns exactly N results and result i carries the
\* hostname and port of input endpoint i.
C1_ResultsAlignedWithInput ==
    mainpc = "returned" =>
        /\ Len(returned) = Len(certs)
        /\ \A i \in 1..Len(certs) :
              /\ returned[i].Hostname = certs[i].Hostname
              /\ returned[i].Port = certs[i].Port

\* ScanAll has returned for two different endpoints whose workers finished in
\* the reverse of the input order: the second worker's Scan ran before the
\* cancellation, the first worker's after it.
C1_Witness ==
    /\ mainpc = "returned"
    /\ Len(certs) = 2
    /\ certs[1] # certs[2]
    /\ wresp[1] # <<>> /\ wresp[1][1].done
    /\ wresp[2] # <<>> /\ ~wresp[2][1].done
    /\ returned[1].Hostname = certs[1].Hostname
    /\ returned[2].Port = certs[2].Port

\* C2: at every moment the number of endpoints whose Scan is in progress is at
\* most the concurrency limit K; with K = 1 no two scans overlap.
C2_AtMostKScans ==
    /\ Cardinality(InProgress) <= concurrency
    /\ concurrency = 1 => \A i, j \in InProgress : i = j

\* With K = 1, one scan is in progress and another worker waits for the slot.
C2_Witness ==
    /\ concurrency = 1
    /\ Cardinality(InProgress) = 1
    /\ Waiting # {}

\* C3: if the context is canceled before a worker has acquired its slot, the
\* worker never acquires one and never calls Scan: its result is the canceled
\* fast-fail result.
C3_CanceledWorkerNeverScans ==
    [][\A i \in 1..Len(certs) :
          (ctxDone /\ wpc[i] \in {"unborn", "select"}) =>
              /\ wpc'[i] # "scan"
              /\ (Written(results'[i]) =>
                     /\ ~results'[i].Success
                     /\ results'[i].Error = "context canceled")]_vars

\* C4: ScanAll returns only after every endpoint has had its result written, by
\* Scan or by the canceled path, and when it returns no worker is still running.
C4_ReturnsAfterAllResults ==
    mainpc = "returned" =>
        \A i \in 1..Len(certs) :
            /\ Written(returned[i])
            /\ Written(results[i])
            /\ wpc[i] = "exit"

\* ScanAll has returned one result written by Scan and one written by the
\* canceled path.
C4_Witness ==
    /\ mainpc = "returned"
    /\ Len(certs) = 2
    /\ \E i, j \in 1..2 :
          /\ returned[i].Error = "context canceled"
          /\ wresp[i] = <<>>
          /\ wresp[j] # <<>>

C6_CertificateIffSuccess ==
    /\ \A i \in 1..Len(results) :
          (Len(results[i].Certificate) = 1) <=> results[i].Success
    /\ \A i \in 1..Len(returned) :
          (Len(returned[i].Certificate) = 1) <=> returned[i].Success

\* One batch holds a success and a handshake that delivered no certificates.
C6_Witness ==
    /\ mainpc = "returned"
    /\ \E i, j \in 1..Len(returned) :
          /\ returned[i].Success
          /\ Len(returned[i].Certificate) = 1
          /\ returned[j].Error = "no certificates received"
          /\ returned[j].Certificate = <<>>

(***************************************************************************)
(* Properties of the certificate parser (checked under SpecParse).         *)
(***************************************************************************)
Issues == chainOut[1].Issues
IssueTypes == {Issues[k].Type : k \in 1..Len(Issues)}
HasIssue(type, index) ==
    \E k \in 1..Len(Issues) :
        Issues[k].Type = type /\ Issues[k].CertificateIndex = index

\* C7: ChainInfo.valid is false if and only if the issue list holds an expired
\* or not_yet_valid issue; the advisory issues never make it false.
C7_ValidIffNoDateIssue ==
    ppc = "done" =>
        (chainOut[1].Valid = FALSE <=>
            IssueTypes \cap {"expired", "not_yet_valid"} # {})

\* A chain with all three advisory issues and no date issue stays valid.
C7_Witness ==
    /\ ppc = "done"
    /\ chainOut[1].Valid
    /\ IssueTypes = {"self_signed", "hostname_mismatch", "weak_crypto"}

\* The pass an issue belongs to, and its rank inside the first pass.
Pass(type) == CASE type \in {"expired", "not_yet_valid", "self_signed"} -> 1
                [] type = "hostname_mismatch" -> 2
                [] OTHER -> 3
Rank(type) == CASE type = "expired" -> 1
                [] type = "not_yet_valid" -> 2
                [] type = "self_signed" -> 3
                [] OTHER -> 0
\* a strictly precedes b in (pass, certificate index, rank) order.
IssueBefore(a, b) ==
    \/ Pass(a.Type) < Pass(b.Type)
    \/ /\ Pass(a.Type) = Pass(b.Type)
       /\ \/ a.CertificateIndex < b.CertificateIndex
          \/ /\ a.CertificateIndex = b.CertificateIndex
             /\ Rank(a.Type) < Rank(b.Type)

\* C8: the issue list is ordered: per certificate in index order its expired,
\* not_yet_valid and (index 0 only) self_signed issues; then at most one
\* hostname_mismatch at index 0; then the weak_crypto issues in index order.
C8_IssueOrder ==
    ppc = "done" =>
        /\ \A k \in 1..(Len(Issues) - 1) : IssueBefore(Issues[k], Issues[k + 1])
        /\ \A k \in 1..Len(Issues) :
              /\ Issues[k].Type \in {"self_signed", "hostname_mismatch"}
                    => Issues[k].CertificateIndex = 0
              /\ Issues[k].CertificateIndex \in 0..(Len(chainIn) - 1)

\* A two-certificate chain that raises all five kinds of issue.
C8_Witness ==
    /\ ppc = "done"
    /\ Len(chainIn) = 2
    /\ IssueTypes = {"expired", "not_yet_valid", "self_signed",
                     "hostname_mismatch", "weak_crypto"}
    /\ HasIssue("expired", 1) /\ HasIssue("weak_crypto", 0)
    /\ HasIssue("weak_crypto", 1)

\* C9: a certificate at index i whose NotAfter is before the validation time
\* yields an expired issue with certificate index i, and valid is false.
C9_ExpiredReported ==
    ppc = "done" =>
        \A k \in 1..Len(chainIn) :
            chainIn[k].NotAfter < now =>
                /\ HasIssue("expired", k - 1)
                /\ chainOut[1].Valid = FALSE

\* The leaf is in date and the certificate at index 1 has expired.
C9_Witness ==
    /\ ppc = "done"
    /\ Len(chainIn) = 2
    /\ chainIn[1].NotAfter >= now
    /\ chainIn[1].NotBefore <= now
    /\ chainIn[2].NotAfter < now
    /\ HasIssue("expired", 1)

\* C10: daysUntilExpiry is the floor of (hours until NotAfter) / 24, so it is
\* negative for every leaf whose NotAfter is in the past.
C10_DaysIsFloor ==
    ppc = "done" =>
        /\ certOut[1].DaysUntilExpiry = (chainIn[1].NotAfter - now) \div HoursPerDay
        /\ chainIn[1].NotAfter < now => certOut[1].DaysUntilExpiry < 0

\* The chain handed to the parser, its leaf re-issued by another name.
OtherIssuer(cert) == CHOOSE d \in DNs : d # cert.Subject
ReissuedLeaf(cs) == [cs EXCEPT ![1].Issuer = OtherIssuer(cs[1])]

\* C11: for any leaf certificate whose Subject equals its Issuer the issue list
\* holds a self_signed issue with certificate index 0, and ChainInfo.valid is
\* what it is for the same chain with a leaf that is not self-signed.
C11_SelfSignedLeafAdvisory ==
    (ppc = "done" /\ chainIn[1].Subject = chainIn[1].Issuer) =>
        /\ HasIssue("self_signed", 0)
        /\ chainOut[1].Valid = parseChain(ReissuedLeaf(chainIn), hostIn, now).Valid

\* A self-signed leaf, otherwise in order, ahead of a self-signed root: the
\* chain is valid and its only self_signed issue is the leaf's.
C11_Witness ==
    /\ ppc = "done"
    /\ Len(chainIn) = 2
    /\ chainIn[1].Subject = chainIn[1].Issuer
    /\ chainIn[2].Subject = chainIn[2].Issuer
    /\ chainOut[1].Valid
    /\ HasIssue("self_signed", 0)
    /\ ~HasIssue("self_signed", 1)

(***************************************************************************)
(* Properties of buildSyncRequest (checked under SpecBuild).               *)
(***************************************************************************)
\* The results of the list that carry an endpoint's hostname and port.
Matching(cert, rs) ==
    {j \in 1..Len(rs) : rs[j].Hostname = cert.Hostname /\ rs[j].Port = cert.Port}

\* An entry that carries hostname, port, tags and notes and nothing else.
OnlyStatic(e) ==
    /\ e.LastCheckAt = <<>> /\ e.Subject = "" /\ e.Issuer = ""
    /\ e.NotBefore = <<>> /\ e.NotAfter = <<>> /\ e.SANList = {}
    /\ e.ChainValid = <<>> /\ e.ChainIssues = <<>> /\ e.LastError = ""

\* An entry whose scan data are those of the result r.
JoinedTo(e, r) ==
    /\ e.LastCheckAt = <<r.ScannedAt>>
    /\ e.LastError = (IF r.Success THEN "" ELSE r.Error)
    /\ r.Success => /\ e.Subject = r.Certificate[1].Subject
                    /\ e.NotAfter = <<r.Certificate[1].NotAfter>>
                    /\ e.ChainValid = <<r.Chain[1].Valid>>
    /\ ~r.Success => e.Subject = "" /\ e.ChainValid = <<>>

\* C12: the sync request holds exactly one certificate entry per configured
\* endpoint, in endpoint order, joined to the results by (hostname, port); an
\* endpoint with no matching result is still included and carries only its
\* hostname, port, tags and notes.
C12_OneEntryPerEndpoint ==
    apc = "built" =>
        LET entries == syncReq[1].Certificates
            rs == lastScan[1]
        IN  /\ Len(entries) = Len(certs)
            /\ \A i \in 1..Len(certs) :
                  /\ entries[i].Hostname = certs[i].Hostname
                  /\ entries[i].Port = certs[i].Port
                  /\ entries[i].Tags = certs[i].Tags
                  /\ entries[i].Notes = certs[i].Notes
                  /\ Matching(certs[i], rs) = {} => OnlyStatic(entries[i])
                  /\ Matching(certs[i], rs) # {} =>
                        \E j \in Matching(certs[i], rs) : JoinedTo(entries[i], rs[j])

\* Two endpoints on one host: the first has no result and is sent bare, the
\* second is joined to the one result, which is for its port.
C12_Witness ==
    /\ apc = "built"
    /\ Len(certs) = 2
    /\ certs[1].Hostname = certs[2].Hostname
    /\ certs[1].Port # certs[2].Port
    /\ Len(lastScan[1]) = 1
    /\ lastScan[1][1].Port = certs[2].Port
    /\ lastScan[1][1].Success
    /\ OnlyStatic(syncReq[1].Certificates[1])
    /\ syncReq[1].Certificates[2].Subject = "CN=a"

(***************************************************************************)
(* Properties of the agent: scan batches, identity, heartbeat (checked     *)
(* under SpecAgent).                                                       *)
(***************************************************************************)
\* A Sync call is under way: its request is built and not yet dropped.
SyncUnderWay == apc \in {"syncWait", "syncEnd"}
\* Sync has returned to syncWithCloud.
SyncReturned == apc = "syncEnd"
Resp == syncRet[1].resp
\* The server replied success with a non-empty agent_id.
RegisteredReply == Resp.err = "" /\ Resp.Success /\ Resp.AgentID # ""
\* The server replied success.
SuccessReply == Resp.err = "" /\ Resp.Success
\* The clock reading the latest completed scan cycle stamped its results with.
LatestScanTime == <<now - 1>>

\* C13: the latest-scan-batch cell is replaced wholesale by each scan cycle:
\* the cell holds exactly the results of the most recently completed scan, and
\* every sync request carries data of that batch only, nothing of an earlier one.
C13_SyncSendsLatestBatchOnly ==
    /\ lastScan # <<>> =>
          /\ Len(lastScan[1]) = Len(certs)
          /\ \A i \in 1..Len(certs) : lastScan[1][i].ScannedAt = LatestScanTime
    /\ SyncUnderWay =>
          \A i \in 1..Len(certs) :
              /\ syncReq[1].Certificates[i].LastCheckAt = <<LatestScanTime>>
              /\ JoinedTo(syncReq[1].Certificates[i], lastScan[1][i])

\* A sync tick sends the batch of the second scan cycle, whose result is a
\* failure: nothing of the first batch is in the request.
C13_Witness ==
    /\ apc = "syncWait"
    /\ task = "syncTick"
    /\ now = 2
    /\ syncReq[1].Certificates[1].LastCheckAt = <<<<1>>>>
    /\ syncReq[1].Certificates[1].LastError = "connection failed"
    /\ syncReq[1].Certificates[1].Subject = ""

C15_SuccessUpdatesIdentity ==
    (SyncReturned /\ SuccessReply) =>
        /\ state.AgentID = Resp.AgentID
        /\ state.AgentName = ConfiguredName
        /\ state.LastSyncAt = Resp.SyncedAt

\* C15, amended: the same for every response that has success=true and a
\* non-empty agent_id.
C15_RegisteredReplyUpdatesIdentity ==
    (SyncReturned /\ RegisteredReply) =>
        /\ state.AgentID = Resp.AgentID
        /\ state.AgentName = ConfiguredName
        /\ state.LastSyncAt = Resp.SyncedAt

\* The server answers a sync from agent id1, once named agent-0, with a new
\* agent_id: identity, name and timestamp all change.
C15_Witness ==
    /\ SyncReturned
    /\ RegisteredReply
    /\ syncReq[1].AgentID = "id1"
    /\ state.AgentID = "id2"
    /\ state.AgentName = ConfiguredName
    /\ state.LastSyncAt = <<2>>
    /\ disk # <<>> /\ disk[1].AgentName = "agent-0"

\* The step in which Sync receives the server's answer.
SyncReplyStep == apc = "syncWait" /\ apc' = "syncEnd"
\* The answer received in that step.
NewResp == syncRet'[1].resp

\* C16 as stated: with previousAgentID set, a successful sync response with
\* migrated == 0 leaves it unchanged and one with migrated > 0 clears it;
\* it is cleared exactly when a sync response reports a migrated record.
C16_ClearedIffMigrated ==
    [][/\ state.PreviousAgentID # "" =>
             (state'.PreviousAgentID = "" <=>
                 (SyncReplyStep /\ NewResp.err = "" /\ NewResp.Success
                                /\ NewResp.Migrated > 0))
       /\ state'.PreviousAgentID \in {state.PreviousAgentID, ""}]_vars

\* C16, amended: the same for successful responses that carry a non-empty
\* agent_id; any other response leaves previousAgentID as it was.
C16_ClearedIffRegisteredAndMigrated ==
    [][/\ state.PreviousAgentID # "" =>
             (state'.PreviousAgentID = "" <=>
                 (SyncReplyStep /\ NewResp.err = "" /\ NewResp.Success
                                /\ NewResp.AgentID # "" /\ NewResp.Migrated > 0))
       /\ state'.PreviousAgentID \in {state.PreviousAgentID, ""}]_vars

\* A sync that carried previous agent id0 got a registered reply counting a
\* migrated record: the breadcrumb is gone from memory and from the file.
C16_Witness ==
    /\ SyncReturned
    /\ syncReq[1].PreviousAgentID = "id0"
    /\ RegisteredReply
    /\ Resp.Migrated > 0
    /\ state.PreviousAgentID = ""
    /\ disk = <<state>>

\* C17: while previousAgentID is set, every sync request carries it together
\* with the current agentID, and it stays the same across failed and
\* migrated == 0 syncs and every other step: only a sync response with
\* migrated > 0 changes it.
C17_MigrationAtLeastOnce ==
    [][/\ (apc = "sync" /\ apc' = "syncWait") =>
             /\ syncReq'[1].PreviousAgentID = state.PreviousAgentID
             /\ syncReq'[1].AgentID = state.AgentID
       /\ (state.PreviousAgentID # ""
               /\ ~(SyncReplyStep /\ NewResp.err = "" /\ NewResp.Migrated > 0)) =>
             state'.PreviousAgentID = state.PreviousAgentID]_vars

\* A later sync of the same run, after one that registered id2 with nothing
\* migrated, still carries previous agent id0 beside the current id2.
C17_Witness ==
    /\ apc = "syncWait"
    /\ task = "syncTick"
    /\ syncReq[1].PreviousAgentID = "id0"
    /\ syncReq[1].AgentID = "id2"
    /\ state.LastSyncAt = <<2>>

\* C18: a heartbeat request is issued only with the non-empty agentID read at
\* the start of the call; with an empty agentID Heartbeat returns without any
\* request.
C18_NoHeartbeatWithoutAgentID ==
    /\ hbReq # <<>> => hbReq[1].AgentID # ""
    /\ apc = "heartbeatWait" => (hbReq # <<>> /\ hbReq[1].AgentID = state.AgentID)
    /\ (task = "heartbeatTick" /\ apc = "return" /\ state.AgentID = "") =>
          (hbReq = <<>> /\ did = <<>>)

\* A heartbeat tick handled with no agentID: the handler is about to return
\* and nothing was sent.
C18_Witness ==
    /\ task = "heartbeatTick"
    /\ apc = "return"
    /\ state.AgentID = ""
    /\ hbReq = <<>>
    /\ did = <<>>

C20_ClearChangesAgentIDOnly ==
    [][(apc = "clear" /\ apc' # "clear") =>
          /\ state'.AgentID = ""
          /\ state'.AgentName = state.AgentName
          /\ state'.PreviousAgentID = state.PreviousAgentID
          /\ state'.LastSyncAt = state.LastSyncAt]_vars

\* The agentID has just been cleared; name, previous agent and last sync time
\* are those the state file held at start-up.
C20_Witness ==
    /\ task = "recovery"
    /\ apc = "scan"
    /\ state = [AgentID |-> "", AgentName |-> "agent-0",
                PreviousAgentID |-> "id0", LastSyncAt |-> <<1>>]

\* C21: a heartbeat failure other than identity-not-found (network error,
\* other 4xx/5xx, malformed body) leaves the identity state and the latest
\* scan batch unchanged and triggers no scan or sync: sendHeartbeat returns
\* the error having done nothing but send the heartbeat, and Run goes back
\* to its select.
C21_OrdinaryHeartbeatFailureChangesNothing ==
    [][/\ (apc = "heartbeatWait" /\ lastErr' \in HeartbeatFailures) =>
            /\ state' = state /\ disk' = disk /\ lastScan' = lastScan
            /\ task' = "heartbeatTick" /\ apc' = "return"
            /\ did' = <<"heartbeat">>
       /\ (apc = "return" /\ lastErr \in HeartbeatFailures) =>
            /\ state' = state /\ disk' = disk /\ lastScan' = lastScan
            /\ apc' \in {"return", "loop"}]_vars

\* A heartbeat of a registered agent failed with an ordinary error.
C21_Witness ==
    /\ task = "heartbeatTick" /\ apc = "return"
    /\ lastErr \in HeartbeatFailures
    /\ state.AgentID # "" /\ lastScan # <<>>
    /\ did = <<"heartbeat">>

\* C22: on startup Run performs exactly one scan followed by one sync attempt
\* before it handles any scan, sync or heartbeat tick: Run begins in the
\* start-up handler, that handler scans, then syncs, and only a handler that
\* has done exactly that gives way to the select loop.
C22_StartupScanThenSync ==
    /\ task = "startup"
    /\ [](task = "startup" =>
            /\ apc \in {"scan", "sync", "syncWait", "syncEnd", "return"}
            /\ apc = "scan" => did = <<>>
            /\ apc = "sync" => did = <<"scan">>
            /\ apc \in {"syncWait", "syncEnd", "return"} => did = <<"scan", "sync">>)
    /\ [][/\ task = "startup" =>
               \/ task' = "startup"
               \/ task' = "loop" /\ did = <<"scan", "sync">>
          /\ (task' \in {"scanTick", "syncTick", "heartbeatTick"} /\ task' # task) =>
               task = "loop"]_vars

\* The start-up handler about to return, its scan and its sync attempt done.
C22_Witness ==
    /\ task = "startup" /\ apc = "return"
    /\ did = <<"scan", "sync">>
    /\ now = 1

\* C23: Sync is never invoked while no scan batch is cached: a sync attempt
\* that finds the latest-scan-batch cell empty first runs a scan, on the same
\* goroutine, so every Sync call is preceded by at least one completed scan
\* and sends that scan's batch.
C23_NoSyncWithoutScan ==
    /\ [](syncReq # <<>> =>
            /\ lastScan # <<>>
            /\ now >= 1
            /\ syncReq[1].Certificates =
                  buildSyncRequest(certs, lastScan[1]).Certificates)
    /\ [][(apc = "sync" /\ lastScan = <<>>) =>
            /\ apc' = "scan"
            /\ syncReq' = <<>>
            /\ did' = did]_vars
    /\ []((task = "syncTick" /\ "sync" \in {did[i] : i \in 1..Len(did)}) =>
            (did = <<"sync">> \/ did = <<"scan", "sync">>))

\* A sync attempt that found the cell empty, scanned, and is now in Sync.
C23_Witness ==
    /\ task = "syncTick" /\ apc = "syncWait"
    /\ did = <<"scan", "sync">>
    /\ lastScan # <<>>
    /\ syncReq # <<>>

\* C24: no scan, sync or heartbeat failure (a failed initial sync and a
\* failed re-registration during recovery included) makes Run return: a
\* handler that returns, with or without an error, hands control back to the
\* select loop, and Run returns only from there and only once the
\* cancellation signal has been raised.
C24_RunReturnsOnlyOnCancel ==
    /\ [](apc = "stopped" => ctxDone)
    /\ [][/\ apc = "return" => apc' \in {"return", "loop"}
          /\ (apc' = "stopped" /\ apc # "stopped") => (apc = "loop" /\ ctxDone)]_vars

\* The re-registration of a recovery failed and the context is not cancelled.
C24_Witness ==
    /\ task = "recovery" /\ apc = "return"
    /\ lastErr \notin {"", ErrAgentNotFound}
    /\ ~ctxDone

\* C25: once the cancellation signal is raised, and given that every scan,
\* sync or heartbeat call in flight terminates, Run eventually returns; and
\* once Run has taken the cancellation case no further scan, sync or
\* heartbeat cycle is started.
C25_CancelStopsRun ==
    /\ ctxDone ~> (apc = "stopped")
    /\ [][apc = "stopped" =>
            /\ apc' = "stopped"
            /\ UNCHANGED <<task, did, lastScan, syncReq, hbReq, state, disk, now>>]_vars

\* Run has returned after a cancellation that arrived during a handler.
C25_Witness ==
    /\ apc = "stopped"
    /\ ctxDone
    /\ \E i \in 1..Len(lastScan[1]) : lastScan[1][i].Error = "context canceled"

\* C26: in the network-scanner agent the scan, sync and heartbeat handlers
\* (the scan and sync run by heartbeat recovery included) never execute
\* concurrently with one another: a handler is entered only from the select
\* loop with no other handler's call in flight, and the latest-scan-batch
\* cell is never written while a Sync is reading it.
C26_HandlersNeverOverlap ==
    [][/\ (syncReq # <<>> \/ SyncUnderWay) => lastScan' = lastScan
       /\ (task' # task /\ task' \in {"scanTick", "syncTick", "heartbeatTick"}) =>
            /\ apc = "loop" /\ task = "loop"
            /\ syncReq = <<>> /\ hbReq = <<>> /\ did = <<>>]_vars

\* The Sync of a heartbeat recovery is in flight, reading the batch its own
\* scan has just stored.
C26_Witness ==
    /\ task = "recovery" /\ apc = "syncWait"
    /\ did = <<"heartbeat", "clear", "scan", "sync">>
    /\ syncReq # <<>> /\ lastScan # <<>>
    /\ syncReq[1].Certificates = buildSyncRequest(certs, lastScan[1]).Certificates

\* The flows inside a critical section of the manager, and those of them
\* whose method assigns to the identity state.
Inside == {f \in Flows : flows[f].pc \in {"locked", "accessed"}}
Writing == {f \in Inside : flows[f].method \in WriteMethods}

\* C27: every read or write of the identity state happens under the state
\* manager's reader/writer lock: at no time are two writers, or a writer and
\* a reader, inside the critical section together, while several readers
\* may be; this holds with Sync and Heartbeat run from concurrent flows.  The
\* identity changes only in the body of a method that holds the lock.
C27_WritersExclusive ==
    /\ [](Writing # {} => Cardinality(Inside) = 1)
    /\ [](mu.readers = Cardinality(Inside \ Writing))
    /\ [](mu.writer <=> Writing # {})
    /\ [][state' # state =>
            \E f \in Writing : flows[f].pc = "locked" /\ flows'[f].pc = "accessed"]_vars

\* Both loops are reading the identity at once.
C27_Witness ==
    /\ Inside = Flows
    /\ Writing = {}
    /\ flows["syncLoop"].method = "GetAgentID"
    /\ flows["heartbeatLoop"].method = "GetLastSyncAt"
    /\ mu.readers = 2

\* C28: loading the state file never causes a hard failure: when the file is
\* missing, unreadable or unparseable, Load leaves the in-memory identity
\* empty (agentID, agentName, previousAgentID all empty) as on a first run,
\* and the start-up goes on to create the agent.
C28_LoadNeverFatal ==
    /\ []((apc \in {"loaded", "created"} /\ (disk = <<>> \/ lastErr # "")) =>
            /\ state.AgentID = ""
            /\ state.AgentName = ""
            /\ state.PreviousAgentID = ""
            /\ state = EmptyState)
    /\ []((apc \in {"loaded", "created"} /\ disk # <<>> /\ lastErr = "") =>
            state = disk[1])
    /\ [][apc = "loaded" => apc' = "created"]_vars

\* The agent was created after a state file holding an identity failed to parse.
C28_Witness ==
    /\ apc = "created"
    /\ lastErr = "failed to parse state file"
    /\ disk # <<>> /\ disk[1].AgentID = "id1"
    /\ state = EmptyState

\* The identity a state file stands for: no file is the empty identity.
DiskIdentity(file) == IF file = <<>> THEN EmptyState ELSE file[1]

\* Reset, whatever the manager and the file hold.
ResetPersists ==
    \A st \in StateFiles, file \in {<<>>} \cup {<<f>> : f \in StateFiles} :
        \A r \in ResetOutcomes(st, file) :
            ~r.err => DiskIdentity(r.disk) = r.state

\* C29: the agent identity is persisted after every mutation: after each
\* operation that changes the in-memory identity (successful sync, clearing
\* the agentID during recovery, clearing previousAgentID, reset) completes
\* without a write error, the identity stored on disk equals the in-memory
\* identity; and nothing else changes the in-memory identity.
C29_PersistedAfterMutation ==
    /\ ResetPersists
    /\ [][state' # state =>
            \/ /\ SyncReplyStep
               /\ AcceptsIdentity(NewResp)
               /\ ~syncRet'[1].saveErr => DiskIdentity(disk') = state'
            \/ /\ apc = "clear" /\ apc' = AfterClear
               /\ clearRet' # <<>>
               /\ ~clearRet'[1] => DiskIdentity(disk') = state']_vars
    /\ []((apc = "syncEnd" /\ RegisteredReply /\ ~syncRet[1].saveErr) =>
            DiskIdentity(disk) = state)

\* The recovery cleared the agent ID and wrote the cleared identity to a file
\* that held the old one.
C29_Witness ==
    /\ task = "recovery" /\ apc = AfterClear
    /\ clearRet = <<FALSE>>
    /\ state.AgentID = "" /\ state.AgentName # ""
    /\ disk = <<state>>

\* C30: if writing the state file fails during a successful Sync, Sync still
\* returns the response without error and the in-memory identity holds the
\* server-returned agentID; later syncs and heartbeats send the in-memory
\* agentID, whatever the file holds; and every later successful Sync
\* attempts the write again.
C30_SaveFailureIsNotSyncFailure ==
    /\ []((apc = "syncEnd" /\ RegisteredReply /\ syncRet[1].saveErr) =>
            /\ lastErr = ""
            /\ state.AgentID = Resp.AgentID)
    /\ []((apc = "syncWait" /\ syncReq # <<>>) =>
            syncReq[1].AgentID = state.AgentID)
    /\ []((apc = "heartbeatWait" /\ hbReq # <<>>) =>
            hbReq[1].AgentID = state.AgentID)
    /\ [][(SyncReplyStep /\ AcceptsIdentity(NewResp)) =>
            (syncRet'[1].saveErr \/ disk' = <<state'>>)]_vars

\* A sync tick's Sync has returned a registration whose write failed: the
\* new agentID is in memory only.
C30_Witness ==
    /\ task = "syncTick" /\ apc = "syncEnd"
    /\ RegisteredReply /\ syncRet[1].saveErr
    /\ lastErr = ""
    /\ state.AgentID = "id2"
    /\ DiskIdentity(disk).AgentID # "id2"

\* The exchange of the Sync call that has just returned, and whether it is
\* one of the failures: no response, status >= 400, a body that is not JSON.
NewHttp == syncRet'[1].http
FailedExchange(h) ==
    h.kind = "transport" \/ h.status >= 400 \/ h.body.kind = "garbage"

\* C31: whenever Sync returns an error (network failure, any HTTP status
\* >= 400 whether or not a structured {code, message} body decodes, or an
\* unparseable response body), the identity state and the state file are
\* exactly as they were before the call; and each of these exchanges does
\* make Sync return an error.
C31_SyncErrorChangesNothing ==
    [][SyncReplyStep =>
         /\ FailedExchange(NewHttp) => lastErr' # ""
         /\ lastErr' # "" => (state' = state /\ disk' = disk)]_vars

\* Sync returned an error for a 500 whose body, had it been read as a sync
\* response, would have registered the agent under another ID.
C31_Witness ==
    /\ apc = "syncEnd"
    /\ syncRet[1].http.status = StatusServerError
    /\ syncRet[1].http.body.kind = "sync"
    /\ lastErr = "API returned status"
    /\ state.AgentID = "id1"
    /\ disk = <<state>>

\* C32: the agent keeps retrying on schedule: after any failed sync (a
\* rejected API key included), as long as no cancellation has been raised and
\* sync ticks keep firing, another Sync attempt is eventually made.
C32_FailedSyncIsRetried ==
    (apc = "syncEnd" /\ lastErr # "") ~> (apc = "syncWait" \/ ctxDone)

\* A Sync made on a sync tick was refused with the structured error of a
\* rejected API key.
C32_Witness ==
    /\ task = "syncTick" /\ apc = "syncEnd"
    /\ syncRet[1].http.status = StatusUnauthorized
    /\ lastErr = "API error"
    /\ ~ctxDone

(***************************************************************************)
(* Properties of the CertificateReconciler (checked under SpecReconciler). *)
(***************************************************************************)
\* The calls made so far that named this namespace and name.
OpsOn(namespace, name) ==
    {i \in 1..Len(ops) : ops[i].Namespace = namespace /\ ops[i].Name = name}

Latest(S) == CHOOSE i \in S : \A j \in S : j <= i

\* The namespace/name pairs whose most recent call was a store.
Stored ==
    {k \in Namespaces \X Names :
        /\ OpsOn(k[1], k[2]) # {}
        /\ ops[Latest(OpsOn(k[1], k[2]))].op = "store"}

LastStored(k) == ops[Latest(OpsOn(k[1], k[2]))].status[1]

\* C33: after any sequence of storeCertificate and removeCertificate calls,
\* CertificateCount() is the number of distinct namespace/name keys whose
\* most recent call was a store, and GetCertificates() returns exactly one
\* status per such key, the most recently stored one.
C33_MapHoldsLatestStorePerKey ==
    /\ CertificateCount(certificates) = Cardinality(Stored)
    /\ \A out \in GetCertificates(certificates) :
          /\ Len(out) = Cardinality(Stored)
          /\ \A k \in Stored :
                \E i \in 1..Len(out) :
                    /\ out[i] = LastStored(k)
                    /\ \A j \in 1..Len(out) :
                          (out[j].Namespace = k[1] /\ out[j].Name = k[2]) => j = i

\* One certificate was stored twice with different statuses, another one of
\* the same name in the other namespace was stored and then removed.
C33_Witness ==
    /\ Len(ops) = 4
    /\ ops[1].op = "store" /\ ops[2].op = "store" /\ ops[3].op = "store"
    /\ ops[4].op = "remove"
    /\ ops[1].Namespace = ops[3].Namespace /\ ops[1].Name = ops[3].Name
    /\ ops[1].status # ops[3].status
    /\ ops[2].Namespace = ops[4].Namespace /\ ops[2].Name = ops[4].Name
    /\ ops[2].Namespace # ops[1].Namespace /\ ops[2].Name = ops[1].Name
    /\ CertificateCount(certificates) = 1

(***************************************************************************)
(* Properties of the event path (checked under SpecEvents, the temporal    *)
(* ones under FairSpecEvents).                                             *)
(***************************************************************************)
\* The scheduleImmediateEventSync goroutines sleeping out the debounce
\* period, and those past it that have not returned from
\* doImmediateEventSync.
PendingSyncs == {g \in DOMAIN isync : isync[g].pc = "sleep"}
RunningSyncs == {g \in DOMAIN isync : isync[g].pc \in {"woken", "upload"}}

\* C34: failure events arriving in rapid succession, including those that
\* arrive while the resulting sync is still running, consolidate into a
\* single doImmediateEventSync: at most one immediate event sync is pending
\* or running at any time.
C34_OneImmediateSyncAtATime ==
    Cardinality(PendingSyncs \cup RunningSyncs) <= 1

InBuffer(id) == id \in IdsOf(events)

\* C35: the events an immediate event sync leaves in the buffer are cleared
\* later by the periodic sync: every event in the EventWatcher buffer is
\* eventually drained by GetEvents and sent.
C35_BufferedEventsEventuallyDrained ==
    \A id \in EventIds : InBuffer(id) ~> (id \in drained /\ id \in delivered)

(***************************************************************************)
(* Termination of ScanAll (checked under FairSpecScanAll).                 *)
(***************************************************************************)
\* C36: provided every Scan returns, ScanAll terminates for every endpoint
\* list, every concurrency >= 1 and every cancellation timing: each worker
\* waiting for a slot eventually acquires one or takes the canceled path,
\* and the join completes.
C36_ScanAllTerminates ==
    /\ \A i \in 1..MaxEndpoints :
          (i \in Workers /\ wpc[i] = "select")
              ~> (i \in Workers /\ wpc[i] \in {"scan", "wgdone"})
    /\ <>(mainpc = "returned")

\* ScanAll has returned after two workers shared a single slot and both ran
\* their Scan, the second one after the cancellation.
C36_Witness ==
    /\ mainpc = "returned"
    /\ Len(certs) = 2 /\ concurrency = 1
    /\ wresp[1] # <<>> /\ wresp[2] # <<>>
    /\ ~wresp[1][1].done /\ wresp[2][1].done
    /\ sem = 0 /\ wg = 0

(***************************************************************************)
(* What syncWithCloud records (checked under SpecAgent).                   *)
(***************************************************************************)
\* C37: the agent records a sync as successful (sync-success metric and
\* last-sync time) only when the server's response has success=true; a
\* response with success=false is recorded as a failed sync.
C37_SuccessRecordedOnlyOnSuccessTrue ==
    [][(apc = "syncEnd" /\ apc' = "return") =>
          /\ recorded' = <<"success">> => Resp.Success
          /\ (lastErr = "" /\ ~Resp.Success) => recorded' = <<"failure">>]_vars

(***************************************************************************)
(* The validity flag Agent.scan reports (checked under SpecParse).         *)
(***************************************************************************)
\* C38: for every successful scan result the certificate-valid flag the
\* agent reports agrees with expiry as the chain validation judges it:
\* whenever an expired issue exists at index 0 the flag is false.
C38_ValidFlagAgreesWithChain ==
    (ppc = "done" /\ HasIssue("expired", 0)) => ~CertificateValid(certOut[1])

(***************************************************************************)
(* After a failed re-registration (checked under SpecAgent).               *)
(***************************************************************************)
\* C39: if the re-registration sync run by heartbeat recovery fails, the
\* agentID stays empty: while it is empty a heartbeat tick issues no HTTP
\* request, every sync request carries an empty agent_id, and only a sync
\* whose response is accepted makes it non-empty, storing the agentID the
\* server returned.
C39_EmptyIDUntilSyncSucceeds ==
    /\ []((task = "recovery" /\ apc = "return" /\ lastErr # "") =>
             state.AgentID = "")
    /\ [][state.AgentID = "" =>
             /\ (apc = "heartbeat" /\ apc' # "heartbeat") =>
                   (hbReq' = <<>> /\ apc' = "return" /\ state' = state)
             /\ (syncReq = <<>> /\ syncReq' # <<>>) => syncReq'[1].AgentID = ""
             /\ state'.AgentID # "" =>
                   /\ SyncReplyStep
                   /\ NewResp.err = "" /\ NewResp.Success
                   /\ state'.AgentID = NewResp.AgentID]_vars

\* A heartbeat tick after a recovery that did not re-register the agent: the
\* identity still holds the sync time of the old registration, the agentID
\* is empty, and the handler returns without having sent a request.
C39_Witness ==
    /\ task = "heartbeatTick" /\ apc = "return"
    /\ state.AgentID = "" /\ state.LastSyncAt # ZeroTime
    /\ hbReq = <<>> /\ did = <<>>

(***************************************************************************)
(* Events taken out of the buffer (checked under SpecEvents).              *)
(***************************************************************************)
\* The events some doEventSync is uploading right now.
InFlight == UNION {IdsOf(esync[r].sending) : r \in DOMAIN esync}

\* C40: no buffered event is lost by a failed upload: every event that
\* doEventSync drained from the buffer has been delivered by a successful
\* SyncCertManagerEvents call or is still in the buffer for a later sync
\* (or its upload is still under way).
C40_DrainedEventsNotLost ==
    \A id \in drained : id \in delivered \/ InBuffer(id) \/ id \in InFlight

====
